---- MODULE Spec2Model ----
(***************************************************************************)
(* Workforce scheduling core of donkeybackend: the slice-based CP model of *)
(* schedule/solver.py (run_solver) and the shift mutation / transfer       *)
(* workflow of schedule/api.py.                                            *)
(*                                                                         *)
(* Times are "HH:MM" strings in the program; here a time is the pair       *)
(* <<hh, mm>> and to_minutes does the parsing arithmetic.                  *)
(***************************************************************************)
EXTENDS Integers, Sequences, FiniteSets, TLC

VARIABLES
    \* ---- run_solver: inputs, solver outcome and returned result
    emp_availability,   \* list of availability records (argument)
    demand,             \* list of demand shifts (argument)
    status,             \* "idle" | "OPTIMAL" | "FEASIBLE" | "INFEASIBLE" | "UNKNOWN"
    xval,               \* solver.Value(x[(e, slice id)]) of the returned solution
    result,             \* the dict run_solver returns (assignments, uncovered)
    \* ---- database rows and request handlers of schedule/api.py
    shifts,             \* ScheduleShift rows: shift_uid -> row
    requests,           \* ShiftTransferRequest rows: sequence, id = position
    calls,              \* per worker: the moderation call in flight
    last,               \* outcome of the last finished handler
    mail,               \* what the last shift handler handed to send_mail
    \* ---- demand store of schedule/api.py
    demands,            \* Demand rows: sequence, id = position
    day_index,          \* DayDemandIndex rows in the order of their ids
    defaults,           \* DefaultDemand rows: <<location, weekday>> -> items
    special_days,       \* SpecialDay rows with their EventRule, by created_at, id
    reply               \* what the last demand-store handler returned

vars ==
    <<emp_availability, demand, status, xval, result, shifts, requests, calls, last,
      mail, demands, day_index, defaults, special_days, reply>>

solverVars == <<emp_availability, demand, status, xval, result>>
dbVars == <<shifts, requests, calls, last, mail>>
storeVars == <<demands, day_index, defaults, special_days, reply>>

-----------------------------------------------------------------------------
(* Bounds of the model *)

\* largest demand of a shift in the explored payloads and patches
MaxDemand == 2
\* number of ShiftTransferRequest rows that are created
MaxRequests == 1
\* number of Demand rows that are created
MaxDemandRows == 2

-----------------------------------------------------------------------------
(* Generic helpers *)

Min2(a, b) == IF a <= b THEN a ELSE b
Max2(a, b) == IF a >= b THEN a ELSE b

RECURSIVE SumSeq(_)
SumSeq(s) == IF s = <<>> THEN 0 ELSE Head(s) + SumSeq(Tail(s))

RECURSIVE Concat(_)
Concat(ss) == IF ss = <<>> THEN <<>> ELSE Head(ss) \o Concat(Tail(ss))

Range(s) == {s[i] : i \in DOMAIN s}

-----------------------------------------------------------------------------
(* schedule/solver.py *)

SLICE_MIN == 30
WEEK_MINUTES == 10080      \* 7*24*60, the upper bound of tot, over and under_hours
W_UNDER == 1000
W_OVER == 10

to_minutes(hhmm) == hhmm[1] * 60 + hhmm[2]

\* Variant that takes two intervals to overlap only when the second starts
\* strictly inside the first.
overlaps_strict(a_start, a_end, b_start, b_end) ==
    a_start < b_start /\ b_start < a_end

overlaps(a_start, a_end, b_start, b_end) ==
    ~(a_end <= b_start \/ b_end <= a_start)

\* Variant that compares the start of the slot only.
contains_start_only(slot_start, slot_end, s_start, s_end) ==
    slot_start <= s_start

contains(slot_start, slot_end, s_start, s_end) ==
    slot_start <= s_start /\ s_end <= slot_end

shift_key(sh) == <<sh.date, sh.location, sh.start, sh.end>>

\* "Prepare original shifts": start_min, end_min, dur_min and id are added.
OrigShifts(dem) ==
    [i \in DOMAIN dem |->
        [date |-> dem[i].date, location |-> dem[i].location,
         start |-> dem[i].start, end |-> dem[i].end,
         demand |-> dem[i].demand,
         needs_experienced |-> dem[i].needs_experienced,
         start_min |-> to_minutes(dem[i].start),
         end_min |-> to_minutes(dem[i].end),
         dur_min |-> to_minutes(dem[i].end) - to_minutes(dem[i].start),
         id |-> shift_key(dem[i])]]

\* The while loop that cuts [t, end_min) into 30-minute pieces.
RECURSIVE SliceBounds(_, _)
SliceBounds(t, end_min) ==
    IF t < end_min
    THEN LET t2 == Min2(t + SLICE_MIN, end_min)
         IN  <<<<t, t2>>>> \o SliceBounds(t2, end_min)
    ELSE <<>>

SlicesOfShift(s) ==
    LET b == SliceBounds(s.start_min, s.end_min)
    IN  [k \in DOMAIN b |->
            [date |-> s.date, location |-> s.location,
             start_min |-> b[k][1], end_min |-> b[k][2],
             dur_min |-> b[k][2] - b[k][1],
             demand |-> s.demand,
             needs_experienced |-> s.needs_experienced,
             orig_id |-> s.id,
             id |-> <<s.id, b[k][1], b[k][2]>>]]

\* `slices` (= `shifts` in the solver): all slices in the order of orig_shifts.
BuildSlices(orig) == Concat([i \in DOMAIN orig |-> SlicesOfShift(orig[i])])

\* slices_by_orig[orig_id]: every slice appended under that key.
SlicesByOrig(slices, orig_id) == SelectSeq(slices, LAMBDA sl : sl.orig_id = orig_id)

\* sorted(employees.keys()); ids compare as strings.
EmpOrder == <<"1", "2">>
SortedEmps(S) == SelectSeq(EmpOrder, LAMBDA e : e \in S)

\* employees[emp]: experienced of the first record, tightest hour bounds.
RECURSIVE AggEmployee(_, _, _)
AggEmployee(recs, emp, acc) ==
    IF recs = <<>> THEN acc
    ELSE LET rec == Head(recs)
             a0 == IF acc.seen THEN acc
                   ELSE [seen |-> TRUE, experienced |-> rec.experienced,
                         hours_min |-> rec.hours_min, hours_max |-> rec.hours_max]
             a1 == [a0 EXCEPT !.hours_min = Max2(a0.hours_min, rec.hours_min),
                              !.hours_max = Min2(a0.hours_max, rec.hours_max)]
         IN  AggEmployee(Tail(recs), emp, IF rec.employee_id = emp THEN a1 ELSE acc)

Employees(recs) ==
    [e \in {recs[i].employee_id : i \in DOMAIN recs} |->
        AggEmployee(recs, e,
            [seen |-> FALSE, experienced |-> FALSE, hours_min |-> 0, hours_max |-> 0])]

\* availability[(emp, date)]: the slots of every record with that key, in minutes.
Availability(recs, emp, date) ==
    Concat([i \in DOMAIN recs |->
        IF recs[i].employee_id = emp /\ recs[i].date = date
        THEN [k \in DOMAIN recs[i].available_slots |->
                 <<to_minutes(recs[i].available_slots[k].start),
                   to_minutes(recs[i].available_slots[k].end)>>]
        ELSE <<>>])

\* preassign_orig: a confirmed assigned_shift identical to an original shift.
PreassignOrig(recs, orig) ==
    {<<recs[i].employee_id, orig[j].id>> : <<i, j>> \in
        {p \in (DOMAIN recs) \X (DOMAIN orig) :
            /\ recs[p[1]].assigned_shift.confirmed
            /\ orig[p[2]].date = recs[p[1]].date
            /\ orig[p[2]].location = recs[p[1]].assigned_shift.location
            /\ orig[p[2]].start = recs[p[1]].assigned_shift.start
            /\ orig[p[2]].end = recs[p[1]].assigned_shift.end}}

\* preassign_slices: the pre-assignment expanded to the slices of the shift.
PreassignSlices(pre_orig, slices) ==
    {<<p[1], slices[k].id>> : <<p, k>> \in
        {q \in pre_orig \X (DOMAIN slices) : slices[q[2]].orig_id = q[1][2]}}

\* allowed[(e, slice id)]
Allowed(recs, pre_slices, e, s) ==
    \/ \E slot \in Range(Availability(recs, e, s.date)) :
            contains(slot[1], slot[2], s.start_min, s.end_min)
    \/ <<e, s.id>> \in pre_slices

\* Everything run_solver derives from its arguments before the CP model.
Prepare(recs, dem) ==
    LET orig == OrigShifts(dem)
        slices == BuildSlices(orig)
        employees == Employees(recs)
        pre_orig == PreassignOrig(recs, orig)
        pre_slices == PreassignSlices(pre_orig, slices)
    IN  [orig |-> orig, slices |-> slices, employees |-> employees,
         emps |-> SortedEmps(DOMAIN employees),
         pre_orig |-> pre_orig, pre_slices |-> pre_slices,
         allowed |-> {<<e, slices[k].id>> : <<e, k>> \in
                        {q \in (DOMAIN employees) \X (DOMAIN slices) :
                            Allowed(recs, pre_slices, q[1], slices[q[2]])}}]

\* x[(e, sid)] is a Boolean variable when allowed and the constant 0 otherwise.
XV(x, e, sid) == IF <<e, sid>> \in DOMAIN x THEN x[<<e, sid>>] ELSE 0

AssignedSum(M, x, sid) == SumSeq([i \in DOMAIN M.emps |-> XV(x, M.emps[i], sid)])

\* idx_by_id[sid]: the last index of the slice list with that id.
RECURSIVE LastIdx(_, _, _)
LastIdx(slices, sid, k) ==
    IF slices[k].id = sid THEN k ELSE LastIdx(slices, sid, k - 1)

IdxById(slices, sid) == LastIdx(slices, sid, Len(slices))

\* tot: minutes of employee e over shift_ids.
TotMinutes(M, x, e) ==
    SumSeq([k \in DOMAIN M.slices |->
        M.slices[IdxById(M.slices, M.slices[k].id)].dur_min * XV(x, e, M.slices[k].id)])

\* allowed_orig[(e, orig_id)]
AllowedOrig(M, e, orig_id) ==
    \/ <<e, orig_id>> \in M.pre_orig
    \/ \E k \in DOMAIN M.slices :
            M.slices[k].orig_id = orig_id /\ <<e, M.slices[k].id>> \in M.allowed

\* "Preassign slices": x[(e, sid)] == 1.
C_Preassign(M, x) ==
    \A p \in M.pre_slices : XV(x, p[1], p[2]) = 1

\* Variant of the selection constraints without "sum(y) <= demand".
C_Selection_uncapped(M, x) ==
    \A oid \in {M.orig[i].id : i \in DOMAIN M.orig} :
        \E y \in [Range(M.emps) -> {0, 1}] :
            /\ \A e \in Range(M.emps) : ~AllowedOrig(M, e, oid) => y[e] = 0
            /\ \A e \in Range(M.emps) : <<e, oid>> \in M.pre_orig => y[e] = 1
            /\ \A e \in Range(M.emps) : \A k \in DOMAIN M.slices :
                    M.slices[k].orig_id = oid => XV(x, e, M.slices[k].id) <= y[e]

\* y[(e, orig_id)] and its constraints: preassigned y, at most demand distinct
\* employees, the x <= y link, and "selected => covers >= 1 slice".
C_Selection(M, x) ==
    \A oid \in {M.orig[i].id : i \in DOMAIN M.orig} :
        \E y \in [Range(M.emps) -> {0, 1}] :
            /\ \A e \in Range(M.emps) : ~AllowedOrig(M, e, oid) => y[e] = 0
            /\ \A e \in Range(M.emps) : <<e, oid>> \in M.pre_orig => y[e] = 1
            /\ \A i \in DOMAIN M.orig :
                    M.orig[i].id = oid =>
                        SumSeq([j \in DOMAIN M.emps |-> y[M.emps[j]]]) <= M.orig[i].demand
            /\ \A e \in Range(M.emps) : \A k \in DOMAIN M.slices :
                    M.slices[k].orig_id = oid => XV(x, e, M.slices[k].id) <= y[e]
            /\ \A e \in Range(M.emps) :
                    LET sl_list == SlicesByOrig(M.slices, oid)
                    IN  sl_list # <<>> =>
                            SumSeq([k \in DOMAIN sl_list |-> XV(x, e, sl_list[k].id)]) >= y[e]

\* exp_sum of a slice: experienced employees that are allowed on it.
ExpSum(M, x, s) ==
    SumSeq([i \in DOMAIN M.emps |->
        IF M.employees[M.emps[i]].experienced /\ <<M.emps[i], s.id>> \in M.allowed
        THEN XV(x, M.emps[i], s.id) ELSE 0])

\* "Coverage per slice; experienced when staffed": the demand cap, the
\* under[sid] variable in [0, demand] and the Boolean is_staffed[sid].
C_Coverage(M, x) ==
    \A k \in DOMAIN M.slices :
        LET s == M.slices[k]
            assigned_sum == AssignedSum(M, x, s.id)
        IN  /\ assigned_sum <= s.demand
            /\ \E under \in 0 .. s.demand : under >= s.demand - assigned_sum
            /\ \E is_staffed \in {0, 1} :
                    /\ assigned_sum >= is_staffed
                    /\ s.needs_experienced => ExpSum(M, x, s) >= is_staffed

\* "No overlapping per employee per day": pairs of slices of one date.
C_NoOverlap(M, x) ==
    \A e \in Range(M.emps) : \A i, j \in DOMAIN M.slices :
        (/\ i < j
         /\ M.slices[i].date = M.slices[j].date
         /\ overlaps(M.slices[i].start_min, M.slices[i].end_min,
                     M.slices[j].start_min, M.slices[j].end_min))
        => XV(x, e, M.slices[i].id) + XV(x, e, M.slices[j].id) <= 1

\* Least values of the slack variables over[e] and under_hours[e] at tot.
OverOf(M, tot, e) == Max2(0, tot - M.employees[e].hours_max * 60)
UnderHoursOf(M, tot, e) == Max2(0, M.employees[e].hours_min * 60 - tot)

\* "Hours per employee": tot, over[e] and under_hours[e] range over [0, 7*24*60].
C_Hours(M, x) ==
    \A e \in Range(M.emps) :
        LET tot == TotMinutes(M, x, e)
        IN  /\ tot \in 0 .. WEEK_MINUTES
            /\ OverOf(M, tot, e) <= WEEK_MINUTES
            /\ UnderHoursOf(M, tot, e) <= WEEK_MINUTES

Feasible(M, x) ==
    /\ C_Preassign(M, x)
    /\ C_Coverage(M, x)
    /\ C_NoOverlap(M, x)
    /\ C_Selection(M, x)
    /\ C_Hours(M, x)

\* The solutions of the CP model, as values of the x variables.
FeasibleSet(M) == {x \in [M.allowed -> {0, 1}] : Feasible(M, x)}

\* Least value of the variable under[sid] that the objective sums.
UnderOf(M, x, sid) ==
    Max2(0, M.slices[IdxById(M.slices, sid)].demand - AssignedSum(M, x, sid))

\* Objective terms of employee e: 10 * over[e] + 1 * under_hours[e].
HoursCost(M, x, e) ==
    LET tot == TotMinutes(M, x, e)
    IN  W_OVER * OverOf(M, tot, e) + UnderHoursOf(M, tot, e)

\* Variant of the objective without the coverage term.
Cost_hours_only(M, x) ==
    SumSeq([i \in DOMAIN M.emps |-> HoursCost(M, x, M.emps[i])])

\* The objective at x with every slack variable at its least value.
Cost(M, x) ==
    W_UNDER * SumSeq([k \in DOMAIN M.slices |-> UnderOf(M, x, M.slices[k].id)])
    + SumSeq([i \in DOMAIN M.emps |-> HoursCost(M, x, M.emps[i])])

MinCost(M, F) ==
    LET cs == {Cost(M, x) : x \in F}
    IN  CHOOSE c \in cs : \A d \in cs : c <= d

\* "Build result": one assignment per original shift.
AssignedHere(M, x, sid) == {e \in Range(M.emps) : XV(x, e, sid) = 1}

AssignedSet(M, x, s0) ==
    {e \in Range(M.emps) :
        \E k \in DOMAIN M.slices :
            M.slices[k].orig_id = s0.id /\ XV(x, e, M.slices[k].id) = 1}

\* Variant that counts every slice as a full SLICE_MIN.
MissingMinutes_full_slices(M, x, s0) ==
    LET sl_list == SlicesByOrig(M.slices, s0.id)
        covered_person_min ==
            SumSeq([k \in DOMAIN sl_list |->
                Min2(Cardinality(AssignedHere(M, x, sl_list[k].id)), s0.demand)
                    * SLICE_MIN])
        total_needed_min == s0.dur_min * s0.demand
    IN  Max2(0, total_needed_min - covered_person_min)

MissingMinutes(M, x, s0) ==
    LET sl_list == SlicesByOrig(M.slices, s0.id)
        covered_person_min ==
            SumSeq([k \in DOMAIN sl_list |->
                Min2(Cardinality(AssignedHere(M, x, sl_list[k].id)), s0.demand)
                    * sl_list[k].dur_min])
        total_needed_min == s0.dur_min * s0.demand
    IN  Max2(0, total_needed_min - covered_person_min)

BuildResult(M, x) ==
    LET asg == [i \in DOMAIN M.orig |->
                    [date |-> M.orig[i].date, location |-> M.orig[i].location,
                     start |-> M.orig[i].start, end |-> M.orig[i].end,
                     demand |-> M.orig[i].demand,
                     assigned_employees |-> SortedEmps(AssignedSet(M, x, M.orig[i])),
                     needs_experienced |-> M.orig[i].needs_experienced,
                     missing_minutes |-> MissingMinutes(M, x, M.orig[i])]]
        unc == Concat([i \in DOMAIN asg |->
                    IF asg[i].missing_minutes > 0
                    THEN <<[shift_id |-> M.orig[i].id,
                            missing_minutes |-> asg[i].missing_minutes]>>
                    ELSE <<>>])
    IN  [assignments |-> asg, uncovered |-> unc]

NoResult == [assignments |-> <<>>, uncovered |-> <<>>]

-----------------------------------------------------------------------------
(* Arguments of run_solver that the model explores *)

T0800 == <<8, 0>>
T0830 == <<8, 30>>
T0900 == <<9, 0>>
T0915 == <<9, 15>>

Iv(a, b) == [start |-> a, end |-> b]

\* one slice, two slices, a short last slice, and an interval with end < start
FirstIntervals == {Iv(T0800, T0830), Iv(T0800, T0900), Iv(T0900, T0800)}

DemandShift(date, location, iv, dmd, ne) ==
    [date |-> date, location |-> location, start |-> iv.start, end |-> iv.end,
     demand |-> dmd, needs_experienced |-> ne]

FirstShifts ==
    {DemandShift("d1", "A", iv, dmd, ne) :
        iv \in FirstIntervals, dmd \in 0 .. MaxDemand, ne \in BOOLEAN}
SecondShifts ==
    {DemandShift("d1", "A", Iv(T0830, T0915), dmd, FALSE) : dmd \in 1 .. MaxDemand}
    \cup {DemandShift("d2", "A", Iv(T0830, T0915), 1, FALSE),
          DemandShift("d1", "A", Iv(T0800, T0900), 1, FALSE)}

\* and one two-hour shift of four slices
InputDemands ==
    {<<a>> : a \in FirstShifts} \cup {<<a, b>> : a \in FirstShifts, b \in SecondShifts}
    \cup {<<DemandShift("d1", "A", Iv(T0800, <<10, 0>>), 1, FALSE)>>}

NoAssignedShift == [confirmed |-> FALSE, location |-> "", start |-> <<0, 0>>, end |-> <<0, 0>>]
AssignedShift(c, location, iv) ==
    [confirmed |-> c, location |-> location, start |-> iv.start, end |-> iv.end]

AvailRec(emp, ex, hmin, hmax, slots, asg) ==
    [employee_id |-> emp, date |-> "d1", experienced |-> ex,
     hours_min |-> hmin, hours_max |-> hmax,
     available_slots |-> slots, assigned_shift |-> asg]

Recs1 ==
    {AvailRec("1", ex, 0, 40, slots, asg) :
        ex \in BOOLEAN,
        slots \in {<<>>, <<Iv(T0800, T0915)>>},
        asg \in {NoAssignedShift, AssignedShift(TRUE, "A", Iv(T0800, T0900))}}
Slots2 == {<<>>, <<Iv(T0830, T0915)>>, <<Iv(T0800, T0830), Iv(T0830, T0900)>>}
Recs2 ==
    {AvailRec("2", FALSE, h[1], h[2], slots, NoAssignedShift) :
        h \in {<<0, 40>>, <<1, 0>>}, slots \in Slots2}
    \cup {AvailRec("2", FALSE, 0, 40, slots, AssignedShift(TRUE, "A", Iv(T0830, T0915))) :
        slots \in {<<>>, <<Iv(T0800, T0830), Iv(T0830, T0900)>>}}
    \cup {AvailRec("2", FALSE, 0, 40, <<>>, AssignedShift(FALSE, "A", Iv(T0800, T0900)))}

\* and a pair for the two-hour shift: employee 1 free for its first three
\* slices, employee 2 free for all four with every minute above hours_max
InputAvailability ==
    {<<r1, r2>> : r1 \in Recs1, r2 \in Recs2}
    \cup {<<AvailRec("1", FALSE, 0, 40, <<Iv(T0800, <<9, 30>>)>>, NoAssignedShift),
            AvailRec("2", FALSE, 1, 0, <<Iv(T0800, <<10, 0>>)>>, NoAssignedShift)>>}

-----------------------------------------------------------------------------
(* run_solver as a step *)

Prepared == Prepare(emp_availability, demand)

\* Variant that reports every solution as OPTIMAL.
Solutions_all_optimal(M) ==
    {[x |-> x, status |-> "OPTIMAL", result |-> BuildResult(M, x)] : x \in FeasibleSet(M)}

\* The outcomes of solver.Solve(m) that carry a solution: OPTIMAL, or FEASIBLE
\* when the time limit stopped the search at an incumbent.
Solutions(M) ==
    LET F == FeasibleSet(M)
        best == MinCost(M, F)
    IN  {[x |-> x,
          status |-> IF Cost(M, x) = best THEN "OPTIMAL" ELSE "FEASIBLE",
          result |-> BuildResult(M, x)] : x \in F}

RunSolver ==
    /\ status = "idle"
    /\ \E sol \in Solutions(Prepared) :
            /\ xval' = sol.x
            /\ status' = sol.status
            /\ result' = sol.result
    /\ UNCHANGED <<emp_availability, demand>>
    /\ UNCHANGED <<dbVars, storeVars>>

\* No solution: the model is INFEASIBLE, or the time limit passed before any
\* incumbent (UNKNOWN); solver.Value then raises and nothing is returned.
RunSolverFails ==
    /\ status = "idle"
    /\ \/ /\ LET M == Prepared
             IN  ~(\E x \in [M.allowed -> {0, 1}] : Feasible(M, x))
          /\ status' = "INFEASIBLE"
       \/ status' = "UNKNOWN"
    /\ xval' = <<>>
    /\ result' = NoResult
    /\ UNCHANGED <<emp_availability, demand>>
    /\ UNCHANGED <<dbVars, storeVars>>

Returned == status \in {"OPTIMAL", "FEASIBLE"}

\* The database side while run_solver is studied alone: no shift, no transfer
\* request, no moderation call in flight, no handler outcome yet.
Workers == {"w1", "w2"}

NoShifts == [u \in {} |-> 0]

Idle == [kind |-> "idle", actor |-> "none", req |-> 0, assigned |-> <<>>]

Outcome(op, code) == [op |-> op, code |-> code]

\* No message: _send_shift_notification returns before send_mail when the
\* recipient list is empty, and the other handlers do not call it.
NoMail == [shift |-> <<>>, action |-> "", to |-> {}]

DbIdle ==
    /\ shifts = NoShifts
    /\ requests = <<>>
    /\ calls = [w \in Workers |-> Idle]
    /\ last = Outcome("none", 0)
    /\ mail = NoMail

\* A hash that no payload has, and the reply before any handler has answered.
NoHash == <<"none", "", "", <<>>>>

NoReply == [content_hash |-> NoHash, demand_id |-> 0]

\* No Demand, DayDemandIndex, DefaultDemand or SpecialDay row.
StoreIdle ==
    /\ demands = <<>>
    /\ day_index = <<>>
    /\ defaults = [k \in {} |-> <<>>]
    /\ special_days = <<>>
    /\ reply = NoReply

SolverInit ==
    /\ emp_availability \in InputAvailability
    /\ demand \in InputDemands
    /\ status = "idle"
    /\ xval = <<>>
    /\ result = NoResult
    /\ DbIdle
    /\ StoreIdle

SolverNext == RunSolver \/ RunSolverFails

SolverSpec == SolverInit /\ [][SolverNext]_vars

-----------------------------------------------------------------------------
(* Properties of run_solver results *)

\* The employees the returned solution puts on slice k of the slice list.
OnSlice(M, k) == {e \in Range(M.emps) : XV(xval, e, M.slices[k].id) = 1}

\* The list positions of the slices cut from original shift i.
SlicesOfOrig(M, i) ==
    {k \in DOMAIN M.slices : M.slices[k].orig_id = M.orig[i].id}

ClaimOverlap(a_start, a_end, b_start, b_end) == ~(a_end <= b_start \/ b_end <= a_start)

\* C1: in every result, every slice of a needs_experienced shift that has at
\* least one employee assigned has an experienced employee assigned.
C1_ExperiencedWhenStaffed ==
    LET M == Prepared
    IN
        Returned =>
            \A k \in DOMAIN M.slices :
                (M.slices[k].needs_experienced /\ OnSlice(M, k) # {})
                    => \E e \in OnSlice(M, k) :
                            \E i \in DOMAIN emp_availability :
                                /\ emp_availability[i].employee_id = e
                                /\ emp_availability[i].experienced

\* C2 (as claimed): no employee is listed in assigned_employees of two output
\* shifts of one date whose [start, end) intervals overlap.
C2_NoOverlappingShifts ==
    LET M == Prepared
    IN
        Returned =>
            \A i, j \in DOMAIN result.assignments :
                (/\ i < j
                 /\ result.assignments[i].date = result.assignments[j].date
                 /\ ClaimOverlap(to_minutes(result.assignments[i].start),
                                 to_minutes(result.assignments[i].end),
                                 to_minutes(result.assignments[j].start),
                                 to_minutes(result.assignments[j].end)))
                => Range(result.assignments[i].assigned_employees)
                     \cap Range(result.assignments[j].assigned_employees) = {}

\* C2 (amended): no employee is assigned to two slices of one date whose
\* [start, end) intervals overlap; the segments an employee works never overlap.
C2_NoOverlappingSlices ==
    LET M == Prepared
    IN
        Returned =>
            \A i, j \in DOMAIN M.slices :
                (/\ i < j
                 /\ M.slices[i].date = M.slices[j].date
                 /\ ClaimOverlap(M.slices[i].start_min, M.slices[i].end_min,
                                 M.slices[j].start_min, M.slices[j].end_min))
                => OnSlice(M, i) \cap OnSlice(M, j) = {}

\* An employee works slices of two different shifts of one date.
C2_Witness ==
    LET M == Prepared
    IN
        /\ Returned
        /\ \E i, j \in DOMAIN M.slices :
                /\ M.slices[i].orig_id # M.slices[j].orig_id
                /\ M.slices[i].date = M.slices[j].date
                /\ OnSlice(M, i) \cap OnSlice(M, j) # {}

\* Employee e has, on the date of slice s, an availability slot containing s.
HasSlotFor(e, s) ==
    \E i \in DOMAIN emp_availability :
        /\ emp_availability[i].employee_id = e
        /\ emp_availability[i].date = s.date
        /\ \E n \in DOMAIN emp_availability[i].available_slots :
                /\ to_minutes(emp_availability[i].available_slots[n].start) <= s.start_min
                /\ s.end_min <= to_minutes(emp_availability[i].available_slots[n].end)

\* Employee e has a confirmed assigned_shift equal to the parent shift of s.
IsPreassignedTo(e, s) ==
    \E i \in DOMAIN emp_availability :
        /\ emp_availability[i].employee_id = e
        /\ emp_availability[i].assigned_shift.confirmed
        /\ <<emp_availability[i].date,
             emp_availability[i].assigned_shift.location,
             emp_availability[i].assigned_shift.start,
             emp_availability[i].assigned_shift.end>> = s.orig_id

\* C3: every employee assigned to a slice has an availability slot containing
\* the slice on its date, or a confirmed pre-assignment to its parent shift.
C3_AssignedWithinAvailability ==
    LET M == Prepared
    IN
        Returned =>
            \A k \in DOMAIN M.slices : \A e \in OnSlice(M, k) :
                HasSlotFor(e, M.slices[k]) \/ IsPreassignedTo(e, M.slices[k])

\* One employee works a slice through a slot, another one only through a
\* pre-assignment.
C3_Witness ==
    LET M == Prepared
    IN
        /\ Returned
        /\ \E k \in DOMAIN M.slices : \E e \in OnSlice(M, k) :
                HasSlotFor(e, M.slices[k]) /\ ~IsPreassignedTo(e, M.slices[k])
        /\ \E k \in DOMAIN M.slices : \E e \in OnSlice(M, k) :
                ~HasSlotFor(e, M.slices[k]) /\ IsPreassignedTo(e, M.slices[k])

\* C4: for every original shift the number of distinct employees assigned over
\* all of its slices, and the length of assigned_employees, is at most demand.
C4_DemandNotExceeded ==
    LET M == Prepared
    IN
        Returned =>
            \A i \in DOMAIN result.assignments :
                /\ Len(result.assignments[i].assigned_employees) <= demand[i].demand
                /\ Cardinality(UNION {OnSlice(M, k) : k \in SlicesOfOrig(M, i)}) <= demand[i].demand

\* A two-slice shift with demand 1 that two different employees could work
\* (one per slice) is returned with exactly one employee.
C4_Witness ==
    LET M == Prepared
    IN
        /\ Returned
        /\ \E i \in DOMAIN result.assignments :
                /\ demand[i].demand = 1
                /\ Len(result.assignments[i].assigned_employees) = 1
                /\ \E k1, k2 \in SlicesOfOrig(M, i) :
                        /\ k1 # k2
                        /\ <<"1", M.slices[k1].id>> \in M.allowed
                        /\ <<"2", M.slices[k2].id>> \in M.allowed

\* The sum the claim gives for shift i: over the 30-minute pieces of its own
\* interval, max(0, demand - assigned) * duration.
ClaimMissing(M, i) ==
    LET b == SliceBounds(to_minutes(demand[i].start), to_minutes(demand[i].end))
        n(k) == Cardinality({e \in Range(M.emps) :
                    XV(xval, e, <<shift_key(demand[i]), b[k][1], b[k][2]>>) = 1})
    IN  SumSeq([k \in DOMAIN b |->
            Max2(0, demand[i].demand - n(k)) * (b[k][2] - b[k][1])])

\* C5: missing_minutes of every shift is that sum, and uncovered lists exactly
\* the shifts whose sum is positive.
C5_MissingMinutes ==
    LET M == Prepared
    IN
        Returned =>
            /\ \A i \in DOMAIN result.assignments :
                    result.assignments[i].missing_minutes = ClaimMissing(M, i)
            /\ result.uncovered =
                    Concat([i \in DOMAIN demand |->
                        IF ClaimMissing(M, i) > 0
                        THEN <<[shift_id |-> shift_key(demand[i]),
                                missing_minutes |-> ClaimMissing(M, i)]>>
                        ELSE <<>>])

\* A shift with a short last slice is partly covered, and a shift is fully
\* covered and absent from uncovered.
C5_Witness ==
    LET M == Prepared
    IN
        /\ Returned
        /\ \E i \in DOMAIN result.assignments :
                /\ result.assignments[i].missing_minutes = 15
                /\ result.assignments[i].assigned_employees # <<>>
        /\ \E i \in DOMAIN result.assignments :
                /\ result.assignments[i].missing_minutes = 0
                /\ result.assignments[i].demand > 0
        /\ Len(result.uncovered) = 1

-----------------------------------------------------------------------------
(* accounts/models.py: the users of one company *)

\* User rows: id, email (normalize_email keeps the case of the local part), role.
Users == {"1", "2", "3", "4"}
EmailOf(u) ==
    CASE u = "1" -> "Bob@x.io"
      [] u = "2" -> "amy@x.io"
      [] u = "4" -> "own@x.io"
      [] OTHER -> "max@x.io"
RoleOf(u) ==
    CASE u = "3" -> "manager"
      [] u = "4" -> "owner"
      [] OTHER -> "employee"

\* "anon" is a request without an authenticated user.
Actors == Users \cup {"anon"}

\* str.lower() on the strings that occur as tokens, e-mails and actions.
Lower(t) ==
    CASE t = "Bob@x.io" -> "bob@x.io"
      [] t = "DROP" -> "drop"
      [] OTHER -> t

-----------------------------------------------------------------------------
(* schedule/api.py: persisted shifts and the transfer workflow *)

ACTION_DROP == "drop"
ACTION_CLAIM == "claim"
STATUS_PENDING == "pending"
STATUS_APPROVED == "approved"
STATUS_REJECTED == "rejected"

\* _shift_uid(demand_id, a): "D{demand_id}|{date}|{location}|{start}-{end}"
shift_uid(demand_id, a) == <<"D", demand_id, a.date, a.location, a.start, a.end>>

\* The ScheduleShift row _ensure_schedule_for_demand builds from an assignment.
NewShift(uid, a) ==
    [shift_uid |-> uid, date |-> a.date, location |-> a.location,
     start |-> a.start, end |-> a.end,
     demand_count |-> a.demand,
     needs_experienced |-> a.needs_experienced,
     assigned_employees |-> a.assigned_employees,
     missing_minutes |-> a.missing_minutes,
     user_edited |-> FALSE, confirmed |-> FALSE,
     approved_by |-> "none", approved_at |-> "none"]

\* bulk_create(to_create, ignore_conflicts=True) for a Demand without shifts: of
\* the rows with one shift_uid the first is inserted, the later ones are skipped.
BulkCreate(demand_id, ass) ==
    LET uid(i) == shift_uid(demand_id, ass[i])
    IN  [u \in {uid(i) : i \in DOMAIN ass} |->
            LET first == CHOOSE i \in DOMAIN ass :
                            uid(i) = u /\ \A j \in 1 .. (i - 1) : uid(j) # u
            IN  NewShift(u, ass[first])]

\* De-duplicate while preserving order.
RECURSIVE Dedupe(_, _)
Dedupe(assigned, seen) ==
    IF assigned = <<>> THEN <<>>
    ELSE IF Head(assigned) \in seen THEN Dedupe(Tail(assigned), seen)
    ELSE <<Head(assigned)>> \o Dedupe(Tail(assigned), seen \cup {Head(assigned)})

\* Variant that identifies the requester by id only.
requester_identifiers_id_only(requester) == {requester}

\* requester_identifiers of create_shift_transfer_request.
requester_identifiers(requester) ==
    {requester, EmailOf(requester), Lower(EmailOf(requester))}

\* assigned_tokens | assigned_lower of create_shift_transfer_request.
assigned_tokens(shift) ==
    Range(shift.assigned_employees) \cup {Lower(t) : t \in Range(shift.assigned_employees)}

\* The list approve_shift_transfer writes back, from the list it read.
TransferredList(req, assigned) ==
    LET kept == SelectSeq(assigned,
                    LAMBDA a : a \notin {req.requested_by, Lower(EmailOf(req.requested_by))})
        added == IF req.action = ACTION_DROP
                 THEN IF req.target_employee # "none"
                      THEN Append(kept, req.target_employee) ELSE kept
                 ELSE IF req.action = ACTION_CLAIM
                      THEN Append(kept, req.requested_by) ELSE kept
    IN  Dedupe(added, {})

-----------------------------------------------------------------------------
(* schedule/api.py: demand store (Demand, DayDemandIndex, DefaultDemand) *)

\* A time as a client writes it is <<hh, mm>> for the zero-padded "HH:MM",
\* <<hh, mm, w>> for another way w of writing it ("8:00", "8.00", "8") and
\* <<>> for the empty string.  _norm_hhmm gives the zero-padded form.
norm_hhmm(s) == IF s = <<>> THEN <<>> ELSE <<s[1], s[2]>>

\* The sort key (start, end, demand, needs_experienced) of a canonical item,
\* compared as Python compares tuples; "HH:MM" strings order as their minutes.
KeyLess(a, b) ==
    LET ka == <<to_minutes(a.start), to_minutes(a.end), a.demand,
                IF a.needs_experienced THEN 1 ELSE 0>>
        kb == <<to_minutes(b.start), to_minutes(b.end), b.demand,
                IF b.needs_experienced THEN 1 ELSE 0>>
    IN  \E i \in 1 .. 4 : ka[i] < kb[i] /\ \A j \in 1 .. (i - 1) : ka[j] = kb[j]

\* list.sort(key=...): stable insertion of the items one after the other.
RECURSIVE SortItems(_)
SortItems(items) ==
    IF items = <<>> THEN <<>>
    ELSE LET rest == SortItems(SubSeq(items, 1, Len(items) - 1))
             it == items[Len(items)]
             before == SelectSeq(rest, LAMBDA r : ~KeyLess(it, r))
             after == SelectSeq(rest, LAMBDA r : KeyLess(it, r))
         IN  before \o <<it>> \o after

\* _canonicalize_day_items: items without start or end are skipped, the times
\* normalised, date and location set, the list sorted.
canonicalize_day_items(items, date_s, location) ==
    LET valid == SelectSeq(items,
                    LAMBDA it : norm_hhmm(it.start) # <<>> /\ norm_hhmm(it.end) # <<>>)
    IN  SortItems([k \in DOMAIN valid |->
            DemandShift(date_s, location,
                Iv(norm_hhmm(valid[k].start), norm_hhmm(valid[k].end)),
                valid[k].demand, valid[k].needs_experienced)])

\* A template item: start, end, demand, needs_experienced.
Slot(start, end, dmd, ne) ==
    [start |-> start, end |-> end, demand |-> dmd, needs_experienced |-> ne]

\* _strip_day_items
strip_day_items(items) ==
    [k \in DOMAIN items |->
        Slot(items[k].start, items[k].end, items[k].demand, items[k].needs_experienced)]

\* _hash_payload of a list of canonical items: SHA-256 of its JSON text, taken
\* as free of collisions.  The JSON text of a list never equals that of the
\* dictionary _day_hash serialises.
hash_payload(items) == <<"list", "", "", items>>

\* _day_hash: _hash_payload({"date": ..., "location": ..., "items": ...})
day_hash(date_s, location, items) == <<"dict", date_s, location, items>>

\* _group_payload_by_day_location: the keys in the order of first occurrence,
\* and the items of one key.
GroupKeys(items) ==
    Dedupe([k \in DOMAIN items |-> <<items[k].date, items[k].location>>], {})

GroupItems(items, date_s, location) ==
    SelectSeq(items, LAMBDA it : it.date = date_s /\ it.location = location)

\* Variant that inserts a row without looking for an existing one.
IndexGetOrCreate_always_creates(idx, date_s, location, h, demand_id) ==
    Append(idx, [date |-> date_s, location |-> location, day_hash |-> h,
                 demand |-> demand_id])

\* DayDemandIndex.objects.get_or_create(date, location, day_hash,
\* defaults={"demand": demand}) on the rows idx.
IndexGetOrCreate(idx, date_s, location, h, demand_id) ==
    IF \E k \in DOMAIN idx :
            idx[k].date = date_s /\ idx[k].location = location /\ idx[k].day_hash = h
    THEN idx
    ELSE Append(idx, [date |-> date_s, location |-> location, day_hash |-> h,
                      demand |-> demand_id])

\* _populate_day_index_for_demand, key after key.
RECURSIVE PopulateKeys(_, _, _, _)
PopulateKeys(idx, keys, payload, demand_id) ==
    IF keys = <<>> THEN idx
    ELSE LET d == Head(keys)[1]
             loc == Head(keys)[2]
             canon == canonicalize_day_items(GroupItems(payload, d, loc), d, loc)
         IN  PopulateKeys(
                IndexGetOrCreate(idx, d, loc, day_hash(d, loc, canon), demand_id),
                Tail(keys), payload, demand_id)

populate_day_index_for_demand(idx, payload, demand_id) ==
    PopulateKeys(idx, GroupKeys(payload), payload, demand_id)

\* DayDemandIndex.objects.filter(date, location).order_by("-id").first():
\* position of the row, 0 when there is none.
LatestIndex(idx, date_s, location) ==
    LET ks == {k \in DOMAIN idx : idx[k].date = date_s /\ idx[k].location = location}
    IN  IF ks = {} THEN 0 ELSE CHOOSE k \in ks : \A j \in ks : j <= k

\* Demand.objects.get(content_hash=h): id of the row, 0 when there is none.
DemandByHash(rows, h) ==
    IF \E k \in DOMAIN rows : rows[k].content_hash = h
    THEN CHOOSE k \in DOMAIN rows : rows[k].content_hash = h
    ELSE 0

\* A Demand row.
DemandRow(payload, h, date_from, date_to) ==
    [raw_payload |-> payload, content_hash |-> h,
     date_from |-> date_from, date_to |-> date_to]

\* The calendar: the ISO date strings of seven days from a Monday on.  A date
\* object is the position of its string: date.fromisoformat gives it and
\* date.isoformat is Days[n]; every other string is no date.
Days == <<"d1", "d2", "d3", "d4", "d5", "d6", "d7">>

fromisoformat(date_s) == CHOOSE n \in DOMAIN Days : Days[n] = date_s

weekday(n) == (n - 1) % 7

\* weekday IS NULL of a DefaultDemand row
NoWeekday == -1

\* _canonicalize_template_items
canonicalize_template_items(items) ==
    LET valid == SelectSeq(items,
                    LAMBDA it : norm_hhmm(it.start) # <<>> /\ norm_hhmm(it.end) # <<>>)
    IN  SortItems([k \in DOMAIN valid |->
            Slot(norm_hhmm(valid[k].start), norm_hhmm(valid[k].end),
                 valid[k].demand, valid[k].needs_experienced)])

\* Variant that looks at the template of the weekday only.
get_default_template_exact(defs, location, wd) ==
    IF wd # NoWeekday /\ <<location, wd>> \in DOMAIN defs
    THEN canonicalize_template_items(defs[<<location, wd>>])
    ELSE <<>>

\* _get_default_template(company, location, weekday) on the DefaultDemand rows
\* of the company; weekday may be NoWeekday (None).
get_default_template(defs, location, wd) ==
    IF wd # NoWeekday /\ <<location, wd>> \in DOMAIN defs
    THEN canonicalize_template_items(defs[<<location, wd>>])
    ELSE IF <<location, NoWeekday>> \in DOMAIN defs
    THEN canonicalize_template_items(defs[<<location, NoWeekday>>])
    ELSE <<>>

\* _build_default_week(company, location): the entries of the weekdays 0..6.
\* A (location, weekday) has at most one row, so the order of the query has
\* nothing to choose from.
build_default_week(defs, location) ==
    [n \in 1 .. 7 |->
        IF <<location, n - 1>> \in DOMAIN defs
        THEN [weekday |-> n - 1,
              items |-> canonicalize_template_items(defs[<<location, n - 1>>]),
              inherited |-> FALSE]
        ELSE IF <<location, NoWeekday>> \in DOMAIN defs
        THEN [weekday |-> n - 1,
              items |-> canonicalize_template_items(defs[<<location, NoWeekday>>]),
              inherited |-> TRUE]
        ELSE [weekday |-> n - 1, items |-> <<>>, inherited |-> FALSE]]

\* The shifts of a Demand (demand.shifts), and the table without them.
ShiftsOfDemand(sh, demand_id) == {u \in DOMAIN sh : u[2] = demand_id}

DeleteShiftsOf(sh, demand_id) ==
    [u \in DOMAIN sh \ ShiftsOfDemand(sh, demand_id) |-> sh[u]]

-----------------------------------------------------------------------------
(* schedule/api.py: special days and event rules                            *)
(*                                                                         *)
(* A SpecialDay row is [date, location, active, rule] with its EventRule    *)
(* [id, mode, value, min_demand, max_demand, needs_experienced_default,     *)
(* active].  The float `value` is a number of halves (5 is 2.5), which      *)
(* floating point represents and multiplies exactly; min_demand and         *)
(* max_demand are <<>> for None and <<n>> for n.                            *)

\* The body of the loop over the rules in apply_rules_for: the demand after
\* rule r.  int(round(v)) rounds a half to the even neighbour.
apply_rule(d_val, r) ==
    LET k == r.value \div 2
        set == IF r.mode = "override"
               THEN IF r.value % 2 = 0 THEN k ELSE k + (k % 2)
               \* int(math.ceil(d_val * float(r.value)))
               ELSE -((-(d_val * r.value)) \div 2)
        low == IF r.min_demand # <<>> THEN Max2(set, r.min_demand[1]) ELSE set
    IN  IF r.max_demand # <<>> THEN Min2(low, r.max_demand[1]) ELSE low

\* apply_rules_for exact-first: the rules of the exact location before the
\* wildcard rules.
apply_rules_for_exact_first(sds, date_from, date_to, date_s, location, base_demand, needs_exp) ==
    LET sd_qs == SelectSeq(sds, LAMBDA sd :
                    /\ sd.active /\ sd.rule.active
                    /\ date_from <= fromisoformat(sd.date)
                    /\ fromisoformat(sd.date) <= date_to)
        map_by_key(key) ==
            SelectSeq(sd_qs, LAMBDA sd : <<sd.date, sd.location>> = key)
        rules == map_by_key(<<date_s, location>>) \o map_by_key(<<date_s, "">>)
        d[k \in 0 .. Len(rules)] ==
            IF k = 0 THEN base_demand ELSE apply_rule(d[k - 1], rules[k].rule)
    IN  [demand |-> Max2(0, d[Len(rules)]),
         needs_experienced |->
            needs_exp \/ \E k \in DOMAIN rules : rules[k].rule.needs_experienced_default]

\* apply_rules_for of _apply_special_rules_to_demand, with the query that
\* loads the active special days of the range in the order (created_at, id)
\* and the map from (date, location) to their rules.
apply_rules_for(sds, date_from, date_to, date_s, location, base_demand, needs_exp) ==
    LET sd_qs == SelectSeq(sds, LAMBDA sd :
                    /\ sd.active /\ sd.rule.active
                    /\ date_from <= fromisoformat(sd.date)
                    /\ fromisoformat(sd.date) <= date_to)
        map_by_key(key) ==
            SelectSeq(sd_qs, LAMBDA sd : <<sd.date, sd.location>> = key)
        rules == map_by_key(<<date_s, "">>) \o map_by_key(<<date_s, location>>)
        d[k \in 0 .. Len(rules)] ==
            IF k = 0 THEN base_demand ELSE apply_rule(d[k - 1], rules[k].rule)
    IN  [demand |-> Max2(0, d[Len(rules)]),
         needs_experienced |->
            needs_exp \/ \E k \in DOMAIN rules : rules[k].rule.needs_experienced_default]

\* _apply_special_rules_to_demand(items, date_from, date_to)
apply_special_rules_to_demand(sds, items, date_from, date_to) ==
    [n \in DOMAIN items |->
        LET a == items[n]
            new == apply_rules_for(sds, date_from, date_to, a.date, a.location,
                                   a.demand, a.needs_experienced)
        IN  [a EXCEPT !.demand = new.demand,
                      !.needs_experienced = IF new.needs_experienced THEN TRUE ELSE @]]

-----------------------------------------------------------------------------
(* Request handlers *)

\* The database is the single Demand row with id 1, its payload in `demand`,
\* and the Availability rows in `emp_availability`; no SpecialDay row exists,
\* so _apply_special_rules_to_demand returns the payload as it is.
\*
\* _shift_payload(shift): the dictionary a handler returns for a row.
shift_payload(s) ==
    [id |-> s.shift_uid, date |-> s.date, location |-> s.location,
     start |-> s.start, end |-> s.end, demand |-> s.demand_count,
     assigned_employees |-> s.assigned_employees,
     needs_experienced |-> s.needs_experienced,
     missing_minutes |-> s.missing_minutes, confirmed |-> s.confirmed,
     approved_by |-> s.approved_by, approved_at |-> s.approved_at]

\* _assignments_from_db(d): the payloads of the rows of the Demand, here as a
\* set (the list is ordered by date, location, start, end).
AssignmentsFromDb(rows) == {shift_payload(rows[u]) : u \in DOMAIN rows}

\* Variant that solves again whether or not shifts are persisted.
EnsureSchedule_always_solves(force) ==
    /\ force => requests = <<>>
    /\ \E sol \in Solutions(Prepared) :
            shifts' = BulkCreate(1, sol.result.assignments)
    /\ last' = Outcome("ensure_schedule", 200)
    /\ mail' = NoMail
    /\ UNCHANGED <<requests, calls>>
    /\ UNCHANGED <<solverVars, storeVars>>

\* get_or_generate_schedule / generate_day -> _ensure_schedule_for_demand; the
\* handler returns AssignmentsFromDb of the shifts it leaves.
\* A forced regeneration deletes the shifts; it is explored while no transfer
\* request refers to them.
EnsureSchedule(force) ==
    /\ IF ~force /\ DOMAIN shifts # {}
       THEN /\ last' = Outcome("ensure_schedule", 200)
            /\ UNCHANGED shifts
       ELSE /\ force => requests = <<>>
            /\ \E sol \in Solutions(Prepared) :
                    shifts' = BulkCreate(1, sol.result.assignments)
            /\ last' = Outcome("ensure_schedule", 200)
    /\ mail' = NoMail
    /\ UNCHANGED <<requests, calls>>
    /\ UNCHANGED <<solverVars, storeVars>>

\* run_solver raises (no solution to read): the transaction rolls back.
EnsureScheduleFails(force) ==
    /\ force \/ DOMAIN shifts = {}
    /\ last' = Outcome("ensure_schedule", 500)
    /\ mail' = NoMail
    /\ UNCHANGED <<shifts, requests, calls>>
    /\ UNCHANGED <<solverVars, storeVars>>

\* Variant that sets the fields and user_edited and keeps the approval.
PatchedShift_keeps_approval(s0, p) ==
    [s0 EXCEPT
        !.date = IF "date" \in DOMAIN p THEN p.date ELSE @,
        !.location = IF "location" \in DOMAIN p THEN p.location ELSE @,
        !.start = IF "start" \in DOMAIN p THEN p.start ELSE @,
        !.end = IF "end" \in DOMAIN p THEN p.end ELSE @,
        !.demand_count = IF "demand" \in DOMAIN p THEN p.demand ELSE @,
        !.assigned_employees =
            IF "assigned_employees" \in DOMAIN p THEN p.assigned_employees ELSE @,
        !.needs_experienced =
            IF "needs_experienced" \in DOMAIN p THEN p.needs_experienced ELSE @,
        !.missing_minutes =
            IF "missing_minutes" \in DOMAIN p THEN p.missing_minutes ELSE @,
        !.confirmed = IF "confirmed" \in DOMAIN p THEN p.confirmed ELSE @,
        !.user_edited = TRUE]

\* The row upsert_shift saves: the fields of payload p that are set, then the
\* approval cleared and user_edited set.
PatchedShift(s0, p) ==
    [s0 EXCEPT
        !.date = IF "date" \in DOMAIN p THEN p.date ELSE @,
        !.location = IF "location" \in DOMAIN p THEN p.location ELSE @,
        !.start = IF "start" \in DOMAIN p THEN p.start ELSE @,
        !.end = IF "end" \in DOMAIN p THEN p.end ELSE @,
        !.demand_count = IF "demand" \in DOMAIN p THEN p.demand ELSE @,
        !.assigned_employees =
            IF "assigned_employees" \in DOMAIN p THEN p.assigned_employees ELSE @,
        !.needs_experienced =
            IF "needs_experienced" \in DOMAIN p THEN p.needs_experienced ELSE @,
        !.missing_minutes =
            IF "missing_minutes" \in DOMAIN p THEN p.missing_minutes ELSE @,
        !.confirmed = IF "confirmed" \in DOMAIN p THEN p.confirmed ELSE @,
        !.approved_by = "none",
        !.approved_at = "none",
        !.user_edited = TRUE]

\* _send_shift_notification(shift, action, extra_recipients): the message it
\* hands to send_mail.  _collect_employee_emails takes the e-mail of the user
\* whose id or e-mail (compared without case) a token is, else the token
\* itself when it is an e-mail address.
send_shift_notification(s, action, extra_recipients) ==
    LET collect_employee_emails(identifiers) ==
            {IF t \in Users THEN EmailOf(t)
             ELSE IF \E u \in Users : Lower(EmailOf(u)) = Lower(t)
             THEN EmailOf(CHOOSE u \in Users : Lower(EmailOf(u)) = Lower(t))
             ELSE t : t \in identifiers}
        recipients == collect_employee_emails(Range(s.assigned_employees))
                        \cup collect_employee_emails(extra_recipients)
    IN  IF recipients = {} THEN NoMail
        ELSE [shift |-> s.shift_uid, action |-> action, to |-> recipients]

\* upsert_shift: p is the payload, a record holding the fields that are set.
\* payload.date is a str and stays one on the instance after save(), so
\* _shift_payload raises on s.date.isoformat() once the notification is out:
\* the call answers 500 and its transaction is rolled back.
UpsertShift(actor, p) ==
    /\ IF actor = "anon"
       THEN last' = Outcome("update_shift", 401) /\ mail' = NoMail /\ UNCHANGED shifts
       ELSE IF p.id \notin DOMAIN shifts
       THEN last' = Outcome("update_shift", 404) /\ mail' = NoMail /\ UNCHANGED shifts
       ELSE /\ IF "date" \in DOMAIN p
               THEN last' = Outcome("update_shift", 500) /\ UNCHANGED shifts
               ELSE /\ last' = Outcome("update_shift", 200)
                    /\ shifts' = [shifts EXCEPT ![p.id] = PatchedShift(shifts[p.id], p)]
            /\ mail' = send_shift_notification(PatchedShift(shifts[p.id], p),
                            "zaktualizowana", {})
    /\ UNCHANGED <<requests, calls>>
    /\ UNCHANGED <<solverVars, storeVars>>

\* approve_shift
ApproveShift(actor, shift_id) ==
    /\ IF actor = "anon"
       THEN last' = Outcome("approve_shift", 401) /\ mail' = NoMail /\ UNCHANGED shifts
       ELSE IF RoleOf(actor) \notin {"manager", "owner"}
       THEN last' = Outcome("approve_shift", 403) /\ mail' = NoMail /\ UNCHANGED shifts
       ELSE IF shift_id \notin DOMAIN shifts
       THEN last' = Outcome("approve_shift", 404) /\ mail' = NoMail /\ UNCHANGED shifts
       ELSE /\ shifts' = [shifts EXCEPT ![shift_id] =
                            [@ EXCEPT !.confirmed = TRUE, !.approved_by = actor,
                                      !.approved_at = "now", !.user_edited = TRUE]]
            /\ last' = Outcome("approve_shift", 200)
            /\ mail' = send_shift_notification(shifts'[shift_id], "zatwierdzona", {})
    /\ UNCHANGED <<requests, calls>>
    /\ UNCHANGED <<solverVars, storeVars>>

\* create_shift_transfer_request
CreateShiftTransferRequest(actor, shift_id, payload_action, target_employee_id) ==
    /\ Len(requests) < MaxRequests
    /\ LET action == Lower(payload_action)
           fail(code) == /\ last' = Outcome("create_transfer", code)
                         /\ mail' = NoMail
                         /\ UNCHANGED requests
       IN  IF actor = "anon" THEN fail(401)
           ELSE IF shift_id \notin DOMAIN shifts THEN fail(404)
           ELSE IF action \notin {ACTION_DROP, ACTION_CLAIM} THEN fail(400)
           ELSE IF target_employee_id # "none" /\ target_employee_id \notin Users
           THEN fail(400)
           ELSE IF /\ action = ACTION_DROP
                   /\ requester_identifiers(actor) \cap assigned_tokens(shifts[shift_id]) = {}
           THEN fail(400)
           ELSE IF /\ action = ACTION_CLAIM
                   /\ requester_identifiers(actor) \cap assigned_tokens(shifts[shift_id]) # {}
           THEN fail(400)
           ELSE /\ requests' = Append(requests,
                        [shift |-> shift_id, requested_by |-> actor,
                         target_employee |-> target_employee_id,
                         action |-> action, status |-> STATUS_PENDING])
                /\ last' = Outcome("create_transfer", 200)
                /\ mail' = send_shift_notification(shifts[shift_id],
                                "zgloszona do akceptacji",
                                {actor, target_employee_id} \ {"none"})
    /\ UNCHANGED <<shifts, calls>>
    /\ UNCHANGED <<solverVars, storeVars>>

\* Variant that lets every authenticated user moderate.
ModerationCode_any_role(actor, request_id) ==
    IF actor = "anon" THEN 401
    ELSE IF request_id \notin DOMAIN requests THEN 404
    ELSE IF requests[request_id].status # STATUS_PENDING THEN 400
    ELSE 200

\* The HTTP status of a moderation call up to the pending check: 200 when it
\* goes on to write.
ModerationCode(actor, request_id) ==
    IF actor = "anon" THEN 401
    ELSE IF RoleOf(actor) \notin {"manager", "owner"} THEN 403
    ELSE IF request_id \notin DOMAIN requests THEN 404
    ELSE IF requests[request_id].status # STATUS_PENDING THEN 400
    ELSE 200

\* The save() calls of approve_shift_transfer; `assigned` is the list of the
\* shift as the handler read it.
ApproveWrites(actor, request_id, assigned) ==
    /\ shifts' = [shifts EXCEPT ![requests[request_id].shift] =
            [@ EXCEPT !.assigned_employees = TransferredList(requests[request_id], assigned),
                      !.confirmed = TRUE, !.approved_by = actor,
                      !.approved_at = "now", !.user_edited = TRUE]]
    /\ requests' = [requests EXCEPT ![request_id].status = STATUS_APPROVED]

\* The save() call of reject_shift_transfer.
RejectWrites(request_id) ==
    /\ requests' = [requests EXCEPT ![request_id].status = STATUS_REJECTED]
    /\ UNCHANGED shifts

\* The message approve_shift_transfer or reject_shift_transfer hands to
\* send_mail after its save() calls; `assigned` is the list of the shift as
\* the handler read it.
ModerationMail(kind, request_id, assigned) ==
    LET r == requests[request_id]
        extra_recipients == {r.requested_by, r.target_employee} \ {"none"}
    IN  IF kind = "approve_transfer"
        THEN send_shift_notification(
                [shifts[r.shift] EXCEPT !.assigned_employees = TransferredList(r, assigned)],
                "zatwierdzona (zmiana obsady)", extra_recipients)
        ELSE send_shift_notification(
                [shifts[r.shift] EXCEPT !.assigned_employees = assigned],
                "odrzucona prosba o zmiane", extra_recipients)

\* approve_shift_transfer, run without another request in between.
ApproveShiftTransfer(actor, request_id) ==
    /\ LET code == ModerationCode(actor, request_id)
       IN  /\ last' = Outcome("approve_transfer", code)
           /\ IF code # 200
              THEN mail' = NoMail /\ UNCHANGED <<shifts, requests>>
              ELSE /\ ApproveWrites(actor, request_id,
                        shifts[requests[request_id].shift].assigned_employees)
                   /\ mail' = ModerationMail("approve_transfer", request_id,
                        shifts[requests[request_id].shift].assigned_employees)
    /\ UNCHANGED calls
    /\ UNCHANGED <<solverVars, storeVars>>

\* reject_shift_transfer, run without another request in between.
RejectShiftTransfer(actor, request_id) ==
    /\ LET code == ModerationCode(actor, request_id)
       IN  /\ last' = Outcome("reject_transfer", code)
           /\ IF code # 200
              THEN mail' = NoMail /\ UNCHANGED <<shifts, requests>>
              ELSE /\ RejectWrites(request_id)
                   /\ mail' = ModerationMail("reject_transfer", request_id,
                        shifts[requests[request_id].shift].assigned_employees)
    /\ UNCHANGED calls
    /\ UNCHANGED <<solverVars, storeVars>>

\* Both handlers run in a transaction without select_for_update, so calls of
\* several workers interleave between the query that loads the request with its
\* shift (select_related) and the save() calls.  ReadModeration is the handler
\* up to the pending check, FinishModeration the writes and the commit.
ReadModeration(w, kind, actor, request_id) ==
    /\ calls[w] = Idle
    /\ LET code == ModerationCode(actor, request_id)
       IN  IF code # 200
           THEN /\ last' = Outcome(kind, code)
                /\ UNCHANGED calls
           ELSE /\ last' = Outcome("read_transfer", 0)
                /\ calls' = [calls EXCEPT ![w] =
                        [kind |-> kind, actor |-> actor, req |-> request_id,
                         assigned |-> shifts[requests[request_id].shift].assigned_employees]]
    /\ mail' = NoMail
    /\ UNCHANGED <<shifts, requests>>
    /\ UNCHANGED <<solverVars, storeVars>>

FinishModeration(w) ==
    /\ calls[w] # Idle
    /\ last' = Outcome(calls[w].kind, 200)
    /\ mail' = ModerationMail(calls[w].kind, calls[w].req, calls[w].assigned)
    /\ IF calls[w].kind = "approve_transfer"
       THEN ApproveWrites(calls[w].actor, calls[w].req, calls[w].assigned)
       ELSE RejectWrites(calls[w].req)
    /\ calls' = [calls EXCEPT ![w] = Idle]
    /\ UNCHANGED <<solverVars, storeVars>>

\* The transaction of a moderation call ends with a database error (lock
\* timeout, lost connection) and is rolled back: at a save(), before the
\* notification, or at the commit, after it.
AbortModeration(w) ==
    /\ calls[w] # Idle
    /\ last' = Outcome(calls[w].kind, 500)
    /\ mail' \in {NoMail, ModerationMail(calls[w].kind, calls[w].req, calls[w].assigned)}
    /\ calls' = [calls EXCEPT ![w] = Idle]
    /\ UNCHANGED <<shifts, requests>>
    /\ UNCHANGED <<solverVars, storeVars>>

\* Two calls of _ensure_schedule_for_demand(d, force=True) that overlap, each
\* in the transaction of its handler.  StartEnsure is the call up to
\* d.shifts.all().delete(), which removes the rows it has selected once the
\* transaction commits; FinishEnsure is run_solver, bulk_create and the commit.
\* `req` of the call in flight becomes 1 when another call commits its rows in
\* between: those rows are not among the selected ones, they have the
\* shift_uids this call inserts, and bulk_create(ignore_conflicts=True) skips
\* every row whose shift_uid is taken without raising.
StartEnsure(w) ==
    /\ calls[w] = Idle
    /\ calls' = [calls EXCEPT ![w] = [Idle EXCEPT !.kind = "ensure_schedule"]]
    /\ last' = Outcome("start_ensure", 0)
    /\ mail' = NoMail
    /\ UNCHANGED <<shifts, requests>>
    /\ UNCHANGED <<solverVars, storeVars>>

FinishEnsure(w) ==
    /\ calls[w].kind = "ensure_schedule"
    /\ IF calls[w].req = 1
       THEN UNCHANGED shifts
       ELSE \E sol \in Solutions(Prepared) :
                shifts' = BulkCreate(1, sol.result.assignments)
    /\ calls' = [v \in Workers |->
                    IF v = w THEN Idle
                    ELSE IF calls[v].kind = "ensure_schedule"
                    THEN [calls[v] EXCEPT !.req = 1]
                    ELSE calls[v]]
    /\ last' = Outcome("ensure_schedule", 200)
    /\ mail' = NoMail
    /\ UNCHANGED requests
    /\ UNCHANGED <<solverVars, storeVars>>

-----------------------------------------------------------------------------
(* Inputs of the handlers that the model explores *)

DbDemand == <<DemandShift("d1", "A", Iv(T0800, T0900), 1, FALSE)>>

DbAvailability ==
    <<AvailRec("1", TRUE, 0, 40, <<Iv(T0800, T0915)>>, NoAssignedShift),
      AvailRec("2", FALSE, 0, 40, <<Iv(T0800, T0830), Iv(T0830, T0900)>>, NoAssignedShift)>>

TheShift == shift_uid(1, DbDemand[1])
OtherShift == shift_uid(1, DemandShift("d2", "A", Iv(T0800, T0900), 1, FALSE))

UpsertInputs ==
    {<<"1", [id |-> TheShift, demand |-> d]>> : d \in {0, MaxDemand}}
    \cup {<<"1", [id |-> TheShift, assigned_employees |-> <<"Bob@x.io", "2">>]>>,
          <<"1", [id |-> TheShift]>>, <<"1", [id |-> OtherShift]>>,
          <<"2", [id |-> TheShift, confirmed |-> FALSE]>>,
          <<"anon", [id |-> TheShift]>>,
          <<"1", [id |-> TheShift, date |-> "d2"]>>}

ApproveInputs ==
    {<<"anon", TheShift>>, <<"1", TheShift>>, <<"3", TheShift>>, <<"4", TheShift>>,
     <<"3", OtherShift>>}

CreateInputs ==
    {<<"1", TheShift, "drop", "none">>, <<"1", TheShift, "drop", "2">>,
     <<"2", TheShift, "claim", "none">>,
     <<"1", TheShift, "DROP", "none">>,
     <<"anon", TheShift, "drop", "none">>, <<"1", OtherShift, "drop", "none">>,
     <<"1", TheShift, "swap", "none">>, <<"1", TheShift, "drop", "9">>}

ModerationInputs ==
    {<<"3", rid>> : rid \in 1 .. (MaxRequests + 1)} \cup {<<"anon", 1>>, <<"1", 1>>}

\* The Demand row with id 1 as generate_day has stored it, and its index row.
DbStore ==
    /\ demands = <<DemandRow(DbDemand, hash_payload(DbDemand), 1, 1)>>
    /\ day_index = populate_day_index_for_demand(<<>>, DbDemand, 1)
    /\ defaults = [k \in {} |-> <<>>]
    /\ special_days = <<>>
    /\ reply = NoReply

Init ==
    /\ emp_availability = DbAvailability
    /\ demand = DbDemand
    /\ status = "idle"
    /\ xval = <<>>
    /\ result = NoResult
    /\ DbIdle
    /\ DbStore

\* Requests served one after the other.
Next ==
    \/ \E force \in BOOLEAN : EnsureSchedule(force)
    \/ \E force \in BOOLEAN : EnsureScheduleFails(force)
    \/ \E i \in UpsertInputs : UpsertShift(i[1], i[2])
    \/ \E i \in ApproveInputs : ApproveShift(i[1], i[2])
    \/ \E i \in CreateInputs : CreateShiftTransferRequest(i[1], i[2], i[3], i[4])
    \/ \E i \in ModerationInputs : ApproveShiftTransfer(i[1], i[2])
    \/ \E i \in ModerationInputs : RejectShiftTransfer(i[1], i[2])

Spec == Init /\ [][Next]_vars

\* Moderation calls of two workers that overlap in time.
ConcNext ==
    \/ EnsureSchedule(FALSE)
    \/ \E i \in CreateInputs : CreateShiftTransferRequest(i[1], i[2], i[3], i[4])
    \/ \E w \in Workers, kind \in {"approve_transfer", "reject_transfer"},
          i \in ModerationInputs : ReadModeration(w, kind, i[1], i[2])
    \/ \E w \in Workers : FinishModeration(w)
    \/ \E w \in Workers : AbortModeration(w)

ConcSpec == Init /\ [][ConcNext]_vars

\* Regenerations, two of which may overlap, and edits of the shift, among them
\* one that moves it to location "B".
ShiftSpec ==
    Init /\ [][\/ \E force \in BOOLEAN : EnsureSchedule(force)
               \/ \E w \in Workers : StartEnsure(w)
               \/ \E w \in Workers : FinishEnsure(w)
               \/ \E i \in UpsertInputs \cup {<<"1", [id |-> TheShift, location |-> "B"]>>} :
                        UpsertShift(i[1], i[2])]_vars

-----------------------------------------------------------------------------
(* Properties of the persisted shifts and of the transfer workflow *)

\* User u is an entry of the list: a token is the user's id or, up to case,
\* the user's e-mail address.
IsEntry(u, list) ==
    \E k \in DOMAIN list :
        \/ list[k] = u
        \/ list[k] \in {"Bob@x.io", "bob@x.io"} /\ u = "1"
        \/ list[k] = "amy@x.io" /\ u = "2"
        \/ list[k] = "max@x.io" /\ u = "3"
        \/ list[k] = "own@x.io" /\ u = "4"

\* Position of the first occurrence of token t in the list.
FirstPos(list, t) ==
    CHOOSE k \in DOMAIN list : list[k] = t /\ \A j \in 1 .. (k - 1) : list[j] # t

\* C6: every persisted ScheduleShift has len(assigned_employees) <= demand_count.
C6_AssignedWithinDemandCount ==
    \A u \in DOMAIN shifts :
        Len(shifts[u].assigned_employees) <= shifts[u].demand_count

\* C7: a moderation call on a request that is not pending fails and changes
\* neither the request nor the shift; the status of a request, once it is not
\* pending, never changes again.
C7_ModeratedAtMostOnce ==
    [][/\ \A r \in DOMAIN requests :
            requests[r].status # "pending" => requests'[r].status = requests[r].status
       /\ \A w \in Workers, kind \in {"approve_transfer", "reject_transfer"},
             i \in ModerationInputs :
            (/\ ReadModeration(w, kind, i[1], i[2])
             /\ i[2] \in DOMAIN requests
             /\ requests[i[2]].status # "pending")
            => /\ last'.code # 200
               /\ UNCHANGED <<shifts, requests, calls>>]_vars

\* C8: of two moderation calls on one pending request that overlap, the one
\* that reaches its writes after the other has decided the request fails and
\* changes neither the shift nor the request.
C8_OneConcurrentModerationWins ==
    [][\A w \in Workers :
            (/\ calls[w] # Idle
             /\ calls'[w] = Idle
             /\ requests[calls[w].req].status # "pending")
            => /\ last'.code # 200
               /\ UNCHANGED <<shifts, requests>>]_vars

\* C9: after an approval succeeds, the requester of a drop is no entry of the
\* shift's list and its target, if any, is; the requester of a claim is an
\* entry; the list has no duplicate and keeps the other entries in their order.
C9_TransferApplied ==
    [][\A i \in ModerationInputs :
            (ApproveShiftTransfer(i[1], i[2]) /\ last'.code = 200)
            => LET r == requests[i[2]]
                   old == shifts[r.shift].assigned_employees
                   new == shifts'[r.shift].assigned_employees
                   others == {t \in Range(old) :
                                ~IsEntry(r.requested_by, <<t>>) /\ t # r.target_employee}
               IN  /\ r.action = "drop" => ~IsEntry(r.requested_by, new)
                   /\ (r.action = "drop" /\ r.target_employee # "none")
                        => r.target_employee \in Range(new)
                   /\ r.action = "claim" => r.requested_by \in Range(new)
                   /\ Cardinality(Range(new)) = Len(new)
                   /\ others \subseteq Range(new)
                   /\ \A a, b \in others :
                        FirstPos(old, a) < FirstPos(old, b)
                            => FirstPos(new, a) < FirstPos(new, b)]_vars

\* C10: for an authenticated requester, an existing shift, action drop or
\* claim and an absent or existing target: the call fails and creates nothing
\* when a drop comes from a requester who is no entry of assigned_employees or
\* a claim from one who is; otherwise it appends one pending request; the
\* shift is unchanged either way.
C10_CreateValidated ==
    [][\A i \in CreateInputs :
            (/\ CreateShiftTransferRequest(i[1], i[2], i[3], i[4])
             /\ i[1] \in Users
             /\ i[2] \in DOMAIN shifts
             /\ i[3] \in {"drop", "DROP", "claim"}
             /\ i[4] \in Users \cup {"none"})
            => LET action == IF i[3] = "claim" THEN "claim" ELSE "drop"
                   member == IsEntry(i[1], shifts[i[2]].assigned_employees)
               IN  /\ shifts' = shifts
                   /\ IF (action = "drop" /\ ~member) \/ (action = "claim" /\ member)
                      THEN last'.code # 200 /\ requests' = requests
                      ELSE /\ last'.code = 200
                           /\ requests' = Append(requests,
                                [shift |-> i[2], requested_by |-> i[1],
                                 target_employee |-> i[4], action |-> action,
                                 status |-> "pending"])]_vars

\* A drop was accepted from a requester who is listed by e-mail address only.
C10_Witness ==
    /\ last = Outcome("create_transfer", 200)
    /\ requests # <<>>
    /\ LET r == requests[Len(requests)]
       IN  /\ r.status = "pending" /\ r.action = "drop" /\ r.requested_by = "1"
           /\ "1" \notin Range(shifts[r.shift].assigned_employees)
           /\ "Bob@x.io" \in Range(shifts[r.shift].assigned_employees)

\* C11: after every successful update_shift, whatever fields the patch
\* carries, the shift has user_edited set and approved_by and approved_at
\* empty, also when approve_shift or a transfer approval had approved it.
C11_EditClearsApproval ==
    [][\A i \in UpsertInputs :
            (last' = Outcome("update_shift", 200) /\ UpsertShift(i[1], i[2]))
            => /\ shifts'[i[2].id].user_edited
               /\ shifts'[i[2].id].approved_by = "none"
               /\ shifts'[i[2].id].approved_at = "none"]_vars

\* An edit has just succeeded on a shift that an approval had confirmed: the
\* patches explored never set confirmed to TRUE.
C11_Witness ==
    /\ last = Outcome("update_shift", 200)
    /\ \E u \in DOMAIN shifts :
        /\ shifts[u].confirmed
        /\ shifts[u].user_edited
        /\ shifts[u].approved_by = "none"

\* C12: approve_shift, approve_shift_transfer and reject_shift_transfer called
\* by a user who is neither manager nor owner fail with an authorization error
\* and leave the shift and the request unchanged; approve_shift called by a
\* manager or owner on an existing shift sets confirmed, approved_by to the
\* caller and approved_at to a value.
C12_OnlyManagersApprove ==
    [][/\ \A i \in ApproveInputs :
            (last'.op = "approve_shift" /\ ApproveShift(i[1], i[2]))
            => IF i[1] \in {"3", "4"}
               THEN i[2] \in DOMAIN shifts
                    => /\ last'.code = 200
                       /\ shifts'[i[2]].confirmed
                       /\ shifts'[i[2]].approved_by = i[1]
                       /\ shifts'[i[2]].approved_at # "none"
               ELSE /\ last'.code \in {401, 403}
                    /\ shifts' = shifts /\ requests' = requests
       /\ \A i \in ModerationInputs :
            (/\ i[1] \notin {"3", "4"}
             /\ last'.op \in {"approve_transfer", "reject_transfer"}
             /\ ApproveShiftTransfer(i[1], i[2]) \/ RejectShiftTransfer(i[1], i[2]))
            => /\ last'.code \in {401, 403}
               /\ shifts' = shifts /\ requests' = requests]_vars

\* An employee's approval of a pending request has just been refused, on a
\* shift that the owner had approved with approve_shift.
C12_Witness ==
    /\ last = Outcome("approve_transfer", 403)
    /\ \E r \in DOMAIN requests :
        /\ requests[r].status = "pending"
        /\ shifts[requests[r].shift].confirmed
        /\ shifts[requests[r].shift].approved_by = "4"

\* C13: ensure_schedule without force on a Demand that has persisted shifts
\* does not solve again, leaves every shift as it is (edited and approved
\* ones too) and returns exactly the persisted shifts.
C13_ExistingScheduleReturned ==
    [][(EnsureSchedule(FALSE) /\ DOMAIN shifts # {})
        => /\ shifts' = shifts
           /\ last'.code = 200
           /\ Cardinality(AssignmentsFromDb(shifts')) = Cardinality(DOMAIN shifts)
           /\ \A u \in DOMAIN shifts :
                \E p \in AssignmentsFromDb(shifts') :
                    /\ p.id = u
                    /\ p.assigned_employees = shifts[u].assigned_employees
                    /\ p.demand = shifts[u].demand_count
                    /\ p.confirmed = shifts[u].confirmed
                    /\ p.approved_by = shifts[u].approved_by
                    /\ <<p.date, p.location, p.start, p.end>>
                        = <<shifts[u].date, shifts[u].location,
                            shifts[u].start, shifts[u].end>>]_vars

\* The schedule was asked for again after an edit made the persisted shift
\* differ from every shift the solver produces.
C13_Witness ==
    /\ last = Outcome("ensure_schedule", 200)
    /\ \E u \in DOMAIN shifts :
        /\ shifts[u].user_edited
        /\ shifts[u].demand_count = MaxDemand

-----------------------------------------------------------------------------
(* Demand-store handlers.  The caller is authenticated, the location is     *)
(* given in the request and the company has it; no SpecialDay row exists.   *)

\* A failed handler: the HttpError or the exception leaves the transaction
\* rolled back.
StoreFails(op, code) ==
    /\ last' = Outcome(op, code)
    /\ reply' = NoReply
    /\ UNCHANGED <<demands, day_index, shifts>>

\* _ensure_schedule_for_demand(d, force) as the last step of a handler that
\* has brought the Demand rows to `rows` and the index to `idx`; when
\* run_solver raises, the handler fails as a whole.
EnsureScheduleFor(op, rows, idx, demand_id, force) ==
    IF ~force /\ ShiftsOfDemand(shifts, demand_id) # {}
    THEN /\ day_index' = populate_day_index_for_demand(idx, rows[demand_id].raw_payload,
                                                         demand_id)
         /\ demands' = rows
         /\ UNCHANGED shifts
         /\ last' = Outcome(op, 200)
         /\ reply' = [content_hash |-> NoHash, demand_id |-> demand_id]
    ELSE \/ \E sol \in Solutions(Prepare(
                    \* the Availability rows from date_from to date_to
                    SelectSeq(emp_availability,
                        LAMBDA a : /\ a.date \in Range(Days)
                                   /\ rows[demand_id].date_from <= fromisoformat(a.date)
                                   /\ fromisoformat(a.date) <= rows[demand_id].date_to),
                    apply_special_rules_to_demand(special_days,
                        rows[demand_id].raw_payload,
                        rows[demand_id].date_from, rows[demand_id].date_to))) :
                /\ shifts' = DeleteShiftsOf(shifts, demand_id)
                                @@ BulkCreate(demand_id, sol.result.assignments)
                /\ demands' = rows
                /\ day_index' = idx
                /\ last' = Outcome(op, 200)
                /\ reply' = [content_hash |-> NoHash, demand_id |-> demand_id]
         \/ StoreFails(op, 500)

\* persist=False: run_solver on the payload, nothing of its result is stored.
SolveAdHoc(op, rows, idx, demand_id) ==
    \/ /\ demands' = rows
       /\ day_index' = idx
       /\ UNCHANGED shifts
       /\ last' = Outcome(op, 200)
       /\ reply' = [content_hash |-> NoHash, demand_id |-> demand_id]
    \/ StoreFails(op, 500)

\* save_day_demand
SaveDayDemand(day, location, items) ==
    /\ IF day \notin Range(Days) THEN StoreFails("save_day", 400)
       ELSE LET day_dt == fromisoformat(day)
                template == get_default_template(defaults, location, weekday(day_dt))
                canon_items == IF items # <<>>
                               THEN canonicalize_day_items(items, day, location)
                               ELSE canonicalize_day_items(template, day, location)
                content_hash == day_hash(day, location, canon_items)
                k == LatestIndex(day_index, day, location)
                found == IF k # 0 THEN day_index[k].demand
                         ELSE DemandByHash(demands, content_hash)
                id == IF found # 0 THEN found ELSE Len(demands) + 1
                row == DemandRow(canon_items, content_hash, day_dt, day_dt)
                rows == IF found # 0 THEN [demands EXCEPT ![id] = row]
                        ELSE Append(demands, row)
            IN  IF items = <<>> /\ template = <<>> THEN StoreFails("save_day", 400)
                ELSE IF canon_items = <<>> THEN StoreFails("save_day", 400)
                ELSE IF \E j \in DOMAIN demands :
                            j # id /\ demands[j].content_hash = content_hash
                \* obj.save(): IntegrityError on the unique content_hash
                THEN StoreFails("save_day", 500)
                ELSE /\ found = 0 => Len(demands) < MaxDemandRows
                     /\ demands' = rows
                     /\ shifts' = DeleteShiftsOf(shifts, id)
                     \* DayDemandIndex.objects.filter(demand=obj).delete(), then
                     \* _populate_day_index_for_demand(obj)
                     /\ day_index' = populate_day_index_for_demand(
                                        SelectSeq(day_index, LAMBDA r : r.demand # id),
                                        canon_items, id)
                     /\ last' = Outcome("save_day", 200)
                     /\ reply' = [content_hash |-> content_hash, demand_id |-> 0]
    /\ UNCHANGED <<requests, calls, mail, defaults, special_days>>
    /\ UNCHANGED solverVars

\* _get_or_build_day_index: the index after the lookup (a row may be added
\* for the latest Demand that covers the day and has items for it).
RECURSIVE BackfillIndex(_, _, _, _, _)
BackfillIndex(idx, rows, j, day, location) ==
    IF j = 0 THEN idx
    ELSE LET day_dt == fromisoformat(day)
             its == GroupItems(rows[j].raw_payload, day, location)
         IN  IF rows[j].date_from <= day_dt /\ day_dt <= rows[j].date_to /\ its # <<>>
             THEN IndexGetOrCreate(idx, day, location,
                    day_hash(day, location, canonicalize_day_items(its, day, location)), j)
             ELSE BackfillIndex(idx, rows, j - 1, day, location)

get_or_build_day_index(idx, rows, day, location) ==
    IF LatestIndex(idx, day, location) # 0 \/ day \notin Range(Days) THEN idx
    ELSE BackfillIndex(idx, rows, Len(rows), day, location)

\* What get_day_demand returns once the index is looked up: items and
\* content_hash.
DayDemandOut(idx, rows, defs, day, location) ==
    LET k == LatestIndex(idx, day, location)
    IN  IF k # 0
        THEN LET d == rows[idx[k].demand]
                 day_items == canonicalize_day_items(
                                GroupItems(d.raw_payload, day, location), day, location)
             IN  [items |-> strip_day_items(day_items),
                  content_hash |-> IF day_items # <<>>
                                   THEN day_hash(day, location, day_items)
                                   ELSE d.content_hash]
        ELSE [items |-> get_default_template(defs, location,
                            weekday(fromisoformat(day))),
              content_hash |-> NoHash]

\* get_day_demand
GetDayDemand(day, location) ==
    /\ IF day \notin Range(Days) THEN StoreFails("get_day", 400)
       ELSE LET idx == get_or_build_day_index(day_index, demands, day, location)
            IN  /\ day_index' = idx
                /\ last' = Outcome("get_day", 200)
                /\ reply' = [content_hash |->
                                DayDemandOut(idx, demands, defaults, day, location).content_hash,
                             demand_id |-> 0]
                /\ UNCHANGED <<demands, shifts>>
    /\ UNCHANGED <<requests, calls, mail, defaults, special_days>>
    /\ UNCHANGED solverVars

\* generate_day
GenerateDay(day, location, items, persist, force) ==
    /\ IF day \notin Range(Days) THEN StoreFails("generate_day", 400)
       ELSE LET day_dt == fromisoformat(day)
                template == get_default_template(defaults, location, weekday(day_dt))
                canon_items == IF items # <<>>
                               THEN canonicalize_day_items(items, day, location)
                               ELSE canonicalize_day_items(template, day, location)
                h == day_hash(day, location, canon_items)
                ks == {k \in DOMAIN day_index :
                        /\ day_index[k].date = day /\ day_index[k].location = location
                        /\ day_index[k].day_hash = h}
            IN  IF items = <<>> /\ template = <<>> THEN StoreFails("generate_day", 400)
                ELSE IF ks # {}
                THEN LET id == day_index[CHOOSE k \in ks : \A j \in ks : j <= k].demand
                     IN  IF persist
                         THEN EnsureScheduleFor("generate_day", demands, day_index, id, force)
                         ELSE SolveAdHoc("generate_day", demands, day_index, id)
                ELSE LET content_hash == hash_payload(canon_items)
                         found == DemandByHash(demands, content_hash)
                         id == IF found # 0 THEN found ELSE Len(demands) + 1
                         rows == IF found # 0 THEN demands
                                 ELSE Append(demands,
                                        DemandRow(canon_items, content_hash, day_dt, day_dt))
                         idx == populate_day_index_for_demand(day_index,
                                    rows[id].raw_payload, id)
                     IN  /\ found = 0 => Len(demands) < MaxDemandRows
                         /\ IF persist
                            THEN EnsureScheduleFor("generate_day", rows, idx, id, force)
                            ELSE SolveAdHoc("generate_day", rows, idx, id)
    /\ UNCHANGED <<requests, calls, mail, defaults, special_days>>
    /\ UNCHANGED solverVars

\* The loop of _generate_range_internal over the days cur .. end: the items
\* of the range, or <<>> with ok = FALSE when a day has no template or no
\* canonical item.
RECURSIVE RangeItems(_, _, _, _, _)
RangeItems(defs, location, items, cur, end) ==
    IF cur > end THEN [ok |-> TRUE, items |-> <<>>]
    ELSE LET source_items == IF items # <<>> THEN items
                             ELSE get_default_template(defs, location, weekday(cur))
             day_canon == canonicalize_day_items(source_items, Days[cur], location)
             rest == RangeItems(defs, location, items, cur + 1, end)
         IN  IF day_canon = <<>> \/ ~rest.ok THEN [ok |-> FALSE, items |-> <<>>]
             ELSE [ok |-> TRUE, items |-> day_canon \o rest.items]

\* generate_range -> _generate_range_internal
GenerateRange(date_from, date_to, location, items, persist, force) ==
    /\ IF date_from \notin Range(Days) \/ date_to \notin Range(Days)
       THEN StoreFails("generate_range", 400)
       ELSE LET start == fromisoformat(date_from)
                end == fromisoformat(date_to)
                full == RangeItems(defaults, location, items, start, end)
                content_hash == hash_payload(full.items)
                found == DemandByHash(demands, content_hash)
                id == IF found # 0 THEN found ELSE Len(demands) + 1
                rows == IF found # 0 THEN demands
                        ELSE Append(demands,
                                DemandRow(full.items, content_hash, start, end))
                idx == populate_day_index_for_demand(day_index, rows[id].raw_payload, id)
            IN  IF end < start \/ ~full.ok THEN StoreFails("generate_range", 400)
                ELSE /\ found = 0 => Len(demands) < MaxDemandRows
                     /\ IF persist
                        THEN EnsureScheduleFor("generate_range", rows, idx, id, force)
                        ELSE SolveAdHoc("generate_range", rows, idx, id)
    /\ UNCHANGED <<requests, calls, mail, defaults, special_days>>
    /\ UNCHANGED solverVars

\* save_default_demand with _normalize_weekday and _upsert_default_day; the
\* list of rows in its response is left out of `reply`.
SaveDefaultDemand(location, wd, items) ==
    /\ LET canon == canonicalize_template_items(items)
       IN  IF (wd # NoWeekday /\ wd \notin 0 .. 6) \/ canon = <<>>
           THEN StoreFails("save_default", 400) /\ UNCHANGED defaults
           ELSE /\ defaults' = [k \in DOMAIN defaults \cup {<<location, wd>>} |->
                                    IF k = <<location, wd>> THEN canon ELSE defaults[k]]
                /\ last' = Outcome("save_default", 200)
                /\ reply' = NoReply
                /\ UNCHANGED <<demands, day_index, shifts>>
    /\ UNCHANGED <<requests, calls, mail, special_days>>
    /\ UNCHANGED solverVars

\* get_default_demand_week: it answers with build_default_week(defaults,
\* location) and writes nothing.
GetDefaultDemandWeek(location) ==
    /\ last' = Outcome("get_default_week", 200)
    /\ reply' = NoReply
    /\ UNCHANGED <<demands, day_index, shifts, defaults>>
    /\ UNCHANGED <<requests, calls, mail, special_days>>
    /\ UNCHANGED solverVars

-----------------------------------------------------------------------------
(* Inputs of the demand-store handlers that the model explores *)

\* "08:00"-"09:00" and "09:00"-"09:15"
ItemsAB == <<Slot(T0800, T0900, 1, FALSE), Slot(T0900, T0915, 1, TRUE)>>
\* the same two items the other way round, the times written "9.00", "8:00"
ItemsBA ==
    <<Slot(<<9, 0, "9.00">>, <<9, 15, "9.15">>, 1, TRUE),
      Slot(<<8, 0, "8:00">>, T0900, 1, FALSE)>>
ItemsA == <<Slot(T0800, T0900, 1, FALSE)>>

\* The company has one DefaultDemand row: the fallback of location "A".
DbDefaults == [k \in {<<"A", NoWeekday>>} |-> ItemsA]

SaveDayInputs ==
    {<<"d1", "A", its>> : its \in {ItemsAB, ItemsBA, ItemsA, <<>>}}
    \cup {<<"bad", "A", ItemsA>>, <<"d1", "B", <<>>>>,
          \* an item without start: no canonical item
          <<"d1", "A", <<Slot(<<>>, T0900, 1, FALSE)>>>>,
          \* an item that ends before it starts: "09:00"-"08:00"
          <<"d1", "A", <<Slot(T0900, T0800, 1, FALSE)>>>>}

GetDayInputs == {<<"d1", "A">>, <<"d2", "A">>, <<"d1", "B">>, <<"bad", "A">>}

GenerateDayInputs ==
    {<<"d1", "A", ItemsAB, TRUE, FALSE>>, <<"d1", "A", ItemsA, TRUE, FALSE>>,
     <<"d1", "A", ItemsBA, FALSE, FALSE>>, <<"d1", "A", ItemsAB, TRUE, TRUE>>,
     <<"bad", "A", ItemsA, TRUE, FALSE>>, <<"d1", "B", <<>>, TRUE, FALSE>>}

GenerateRangeInputs ==
    {<<"d1", "d7", "A", ItemsAB, TRUE, FALSE>>, <<"d1", "d7", "A", ItemsBA, FALSE, FALSE>>,
     <<"d2", "d1", "A", ItemsA, TRUE, FALSE>>, <<"d1", "bad", "A", ItemsA, TRUE, FALSE>>,
     <<"d1", "d2", "B", <<>>, TRUE, FALSE>>}

\* No Demand yet, no Availability row, the one DefaultDemand row.
DemandInit ==
    /\ emp_availability = <<>>
    /\ demand = <<>>
    /\ status = "idle"
    /\ xval = <<>>
    /\ result = NoResult
    /\ DbIdle
    /\ demands = <<>>
    /\ day_index = <<>>
    /\ defaults = DbDefaults
    /\ special_days = <<>>
    /\ reply = NoReply

DemandNext ==
    \/ \E i \in SaveDayInputs : SaveDayDemand(i[1], i[2], i[3])
    \/ \E i \in GetDayInputs : GetDayDemand(i[1], i[2])
    \/ \E i \in GenerateDayInputs : GenerateDay(i[1], i[2], i[3], i[4], i[5])
    \/ \E i \in GenerateRangeInputs : GenerateRange(i[1], i[2], i[3], i[4], i[5], i[6])

DemandSpec == DemandInit /\ [][DemandNext]_vars

\* Templates that save_default_demand is called with: the fallback and two
\* weekdays of location "A", a weekday and the fallback of "B", a weekday out
\* of range, an empty list and a list whose only item has no start.
SaveDefaultInputs ==
    {<<"A", wd, items>> : wd \in {NoWeekday, 0, 2}, items \in {ItemsA, ItemsBA}}
    \cup {<<"B", 0, ItemsA>>, <<"B", NoWeekday, ItemsAB>>, <<"A", 7, ItemsA>>,
          <<"A", 0, <<>>>>, <<"A", 0, <<Slot(<<>>, T0900, 1, FALSE)>>>>}

\* The handlers that write and read the default templates, from the store
\* with the fallback template of location "A".
TemplateSpec ==
    DemandInit
    /\ [][\/ \E i \in SaveDefaultInputs : SaveDefaultDemand(i[1], i[2], i[3])
          \/ \E loc \in {"A", "B"} : GetDefaultDemandWeek(loc)
          \/ \E i \in GetDayInputs : GetDayDemand(i[1], i[2])]_vars

-----------------------------------------------------------------------------
(* The rule engine on its own: the SpecialDay and EventRule rows are any    *)
(* that create_rule and create_special_day can have stored, and             *)
(* _apply_special_rules_to_demand is applied to canonical items of a        *)
(* handler's location, which _infer_location never leaves empty.            *)

\* _apply_special_rules_to_demand(items, date_from, date_to) as
\* _ensure_schedule_for_demand calls it; the result is the demand handed to
\* run_solver.
ApplySpecialRules(items, date_from, date_to) ==
    /\ demand' = apply_special_rules_to_demand(special_days, items, date_from, date_to)
    /\ UNCHANGED <<emp_availability, status, xval, result>>
    /\ UNCHANGED <<dbVars, storeVars>>

\* Payloads of one day and of two days, with their date_from and date_to.
RuleInputs ==
    {<<canonicalize_day_items(<<Slot(T0800, T0900, dm, ne)>>, "d1", "A"), 1, 1>> :
        dm \in 0 .. 2, ne \in BOOLEAN}
    \cup {<<canonicalize_day_items(<<Slot(T0800, T0900, 1, FALSE)>>, "d1", "A")
            \o canonicalize_day_items(<<Slot(T0800, T0900, 2, TRUE)>>, "d2", "A"), 1, 2>>}

\* Up to three SpecialDay rows, no two with the same (date, location, rule).
RuleInit ==
    /\ emp_availability = <<>>
    /\ demand = <<>>
    /\ status = "idle"
    /\ xval = <<>>
    /\ result = NoResult
    /\ DbIdle
    /\ demands = <<>>
    /\ day_index = <<>>
    /\ defaults = [k \in {} |-> <<>>]
    /\ reply = NoReply
    /\ LET Rule(id, mode, value, lo, hi, ne, act) ==
                [id |-> id, mode |-> mode, value |-> value, min_demand |-> lo,
                 max_demand |-> hi, needs_experienced_default |-> ne, active |-> act]
           \* override 2.5; multiplier 1.5 with max_demand 2; multiplier -1;
           \* override 0.5 with min_demand 1; an inactive override 3
           rules == {Rule(1, "override", 5, <<>>, <<>>, FALSE, TRUE),
                     Rule(2, "multiplier", 3, <<>>, <<2>>, FALSE, TRUE),
                     Rule(3, "multiplier", -2, <<>>, <<>>, TRUE, TRUE),
                     Rule(4, "override", 1, <<1>>, <<>>, FALSE, TRUE),
                     Rule(5, "override", 6, <<>>, <<>>, TRUE, FALSE)}
           SD(date, location, act, r) ==
                [date |-> date, location |-> location, active |-> act, rule |-> r]
           rows == {SD("d1", loc, TRUE, r) : loc \in {"", "A"}, r \in rules}
                   \cup {SD("d1", "", FALSE, Rule(3, "multiplier", -2, <<>>, <<>>, TRUE, TRUE)),
                         SD("d1", "B", TRUE, Rule(1, "override", 5, <<>>, <<>>, FALSE, TRUE)),
                         SD("d2", "", TRUE, Rule(2, "multiplier", 3, <<>>, <<2>>, FALSE, TRUE))}
       IN  special_days \in
                {q \in UNION {[1 .. n -> rows] : n \in 0 .. 3} :
                    \A j, k \in DOMAIN q :
                        j # k => <<q[j].date, q[j].location, q[j].rule.id>>
                                    # <<q[k].date, q[k].location, q[k].rule.id>>}

RuleSpec ==
    RuleInit /\ [][\E i \in RuleInputs : ApplySpecialRules(i[1], i[2], i[3])]_vars

-----------------------------------------------------------------------------
(* Properties of the demand store *)

\* The items of a request up to order and to the way a time is written: the
\* set of (start, end, demand, needs_experienced) of the items that have a
\* start and an end, and their number.
ClaimForm(items) ==
    LET ok == {k \in DOMAIN items : items[k].start # <<>> /\ items[k].end # <<>>}
    IN  <<{<<items[k].start[1], items[k].start[2], items[k].end[1], items[k].end[2],
             items[k].demand, items[k].needs_experienced>> : k \in ok},
          Cardinality(ok)>>

\* The items save_day works with: those of the request or, without any, the
\* fallback template, which is the one template of the company.
ClaimItems(location, items) ==
    IF items # <<>> THEN items
    ELSE IF location = "A" THEN ItemsA ELSE <<>>

\* C14: a save_day call that follows a successful save_day call for the same
\* (date, location) with the same canonical form returns the same
\* content_hash and leaves the number of Demand rows and the number of
\* DayDemandIndex rows unchanged.
C14_SaveDayIdempotent ==
    [][\A i \in SaveDayInputs :
            (/\ last = Outcome("save_day", 200)
             /\ last'.op = "save_day"
             /\ SaveDayDemand(i[1], i[2], i[3])
             /\ reply.content_hash[2] = i[1]
             /\ reply.content_hash[3] = i[2]
             /\ ClaimForm(reply.content_hash[4]) = ClaimForm(ClaimItems(i[2], i[3])))
            => /\ last'.code = 200
               /\ reply'.content_hash = reply.content_hash
               /\ Len(demands') = Len(demands)
               /\ Len(day_index') = Len(day_index)]_vars

\* C15: a successful generate_range call that follows a successful one with
\* the same range, location and items yields the same demand_id and creates
\* no Demand and no DayDemandIndex row; on an empty store a successful 7-day
\* range leaves exactly one Demand and 7 index rows.
C15_GenerateRangeIdempotent ==
    [][\A i \in GenerateRangeInputs :
        /\ (/\ last = Outcome("generate_range", 200)
            /\ last' = Outcome("generate_range", 200)
            /\ i[1] \in Range(Days) /\ i[2] \in Range(Days)
            /\ demands[reply.demand_id].date_from = fromisoformat(i[1])
            /\ demands[reply.demand_id].date_to = fromisoformat(i[2])
            /\ \A n \in fromisoformat(i[1]) .. fromisoformat(i[2]) :
                    ClaimForm(GroupItems(demands[reply.demand_id].raw_payload, Days[n], i[3]))
                        = ClaimForm(ClaimItems(i[3], i[4]))
            /\ GenerateRange(i[1], i[2], i[3], i[4], i[5], i[6]))
           => /\ reply'.demand_id = reply.demand_id
              /\ Len(demands') = Len(demands)
              /\ Len(day_index') = Len(day_index)
        /\ (/\ demands = <<>> /\ day_index = <<>>
            /\ last' = Outcome("generate_range", 200)
            /\ i[1] = "d1" /\ i[2] = "d7"
            /\ GenerateRange(i[1], i[2], i[3], i[4], i[5], i[6]))
           => /\ Len(demands') = 1
              /\ Len(day_index') = 7
              /\ reply'.demand_id = 1]_vars

\* A generate_range call has answered with the id of the 7-day Demand, which
\* it found by the hash of its items: a Demand it creates has the newest id.
C15_Witness ==
    /\ last = Outcome("generate_range", 200)
    /\ reply.demand_id = 1
    /\ Len(demands) = 2
    /\ demands[1].date_to - demands[1].date_from = 6
    /\ Cardinality({k \in DOMAIN day_index : day_index[k].demand = 1}) = 7

\* C16: raw_payload and content_hash of a Demand row that has an index row
\* never change; a successful save_day with another canonical list for a
\* (date, location) that is indexed creates a new Demand row.
C16_IndexedDemandImmutable ==
    [][/\ \A j \in DOMAIN demands :
            (\E k \in DOMAIN day_index : day_index[k].demand = j)
            => /\ demands'[j].raw_payload = demands[j].raw_payload
               /\ demands'[j].content_hash = demands[j].content_hash
       /\ \A i \in SaveDayInputs :
            (/\ last' = Outcome("save_day", 200)
             /\ LatestIndex(day_index, i[1], i[2]) # 0
             /\ \A k \in DOMAIN day_index :
                    (day_index[k].date = i[1] /\ day_index[k].location = i[2])
                    => ClaimForm(day_index[k].day_hash[4])
                        # ClaimForm(ClaimItems(i[2], i[3]))
             /\ SaveDayDemand(i[1], i[2], i[3]))
            => Len(demands') = Len(demands) + 1]_vars

\* C17: for every Demand row and every (date, location) of its raw_payload,
\* DayDemandIndex has a row for that (date, location) that carries the day
\* hash of those items and references this Demand.
C17_EveryDayIndexed ==
    \A j \in DOMAIN demands :
        \A n \in DOMAIN demands[j].raw_payload :
            LET it == demands[j].raw_payload[n]
            IN  \E k \in DOMAIN day_index :
                    /\ day_index[k].demand = j
                    /\ day_index[k].date = it.date
                    /\ day_index[k].location = it.location
                    /\ ClaimForm(day_index[k].day_hash[4])
                        = ClaimForm(GroupItems(demands[j].raw_payload, it.date, it.location))

\* C18: for any (date, location), a save_day call with the items that get_day
\* returns for it leaves the set of DayDemandIndex rows unchanged.  Stated for
\* the days that have an index row, where get_day reads the items from the
\* indexed Demand and modifies nothing.
C18_SaveOfGetDayKeepsIndex ==
    [][\A i \in SaveDayInputs :
        (/\ i[1] \in Range(Days)
         /\ LatestIndex(day_index, i[1], i[2]) # 0
         /\ i[3] = DayDemandOut(day_index, demands, defaults, i[1], i[2]).items
         /\ SaveDayDemand(i[1], i[2], i[3]))
        => Range(day_index') = Range(day_index)]_vars

C20_TemplateLookup ==
    \A loc \in {"A", "B"} :
        LET week == build_default_week(defaults, loc)
            own(wd) == <<loc, wd>> \in DOMAIN defaults
        IN  /\ \A wd \in 0 .. 6 :
                get_default_template(defaults, loc, wd)
                    = IF own(wd) THEN defaults[<<loc, wd>>]
                      ELSE IF own(NoWeekday) THEN defaults[<<loc, NoWeekday>>]
                      ELSE <<>>
            /\ Len(week) = 7
            /\ \A n \in 1 .. 7 :
                /\ week[n].weekday = n - 1
                /\ week[n].inherited <=> (~own(n - 1) /\ own(NoWeekday))
                /\ week[n].items = get_default_template(defaults, loc, n - 1)

\* get_default_demand_week has answered for a location that has a template of
\* its own for Monday, another one as the fallback and none for Wednesday.
C20_Witness ==
    /\ last = Outcome("get_default_week", 200)
    /\ <<"A", 0>> \in DOMAIN defaults
    /\ <<"A", NoWeekday>> \in DOMAIN defaults
    /\ <<"A", 2>> \notin DOMAIN defaults
    /\ defaults[<<"A", 0>>] # defaults[<<"A", NoWeekday>>]
    /\ build_default_week(defaults, "A")[1].items = defaults[<<"A", 0>>]
    /\ build_default_week(defaults, "A")[3].inherited

-----------------------------------------------------------------------------
(* Properties of the optimum of run_solver *)

\* The case of C21: one shift of positive duration, no confirmed
\* assigned_shift, and every employee either has a slot containing the whole
\* shift or has no slot containing any of its slices.
WholeShift(e) ==
    \E i \in DOMAIN emp_availability :
        /\ emp_availability[i].employee_id = e
        /\ emp_availability[i].date = demand[1].date
        /\ \E n \in DOMAIN emp_availability[i].available_slots :
                /\ to_minutes(emp_availability[i].available_slots[n].start)
                        <= to_minutes(demand[1].start)
                /\ to_minutes(demand[1].end)
                        <= to_minutes(emp_availability[i].available_slots[n].end)

SingleShiftCase ==
    /\ Len(demand) = 1
    /\ to_minutes(demand[1].start) < to_minutes(demand[1].end)
    /\ \A i \in DOMAIN emp_availability : ~emp_availability[i].assigned_shift.confirmed
    /\ \A i \in DOMAIN emp_availability :
            \/ WholeShift(emp_availability[i].employee_id)
            \/ \A k \in DOMAIN Prepared.slices :
                    ~HasSlotFor(emp_availability[i].employee_id, Prepared.slices[k])

\* min(k, demand) employees are assigned, the rest of the demand is missing
\* for the whole duration.
SingleShiftFilled ==
    LET k == Cardinality({emp_availability[i].employee_id : i \in
                            {j \in DOMAIN emp_availability :
                                WholeShift(emp_availability[j].employee_id)}})
        n == IF k <= demand[1].demand THEN k ELSE demand[1].demand
    IN  /\ Len(result.assignments[1].assigned_employees) = n
        /\ result.assignments[1].missing_minutes
                = (demand[1].demand - n)
                    * (to_minutes(demand[1].end) - to_minutes(demand[1].start))

Totals(res) ==
    <<SumSeq([i \in DOMAIN res.assignments |-> Len(res.assignments[i].assigned_employees)]),
      SumSeq([i \in DOMAIN res.assignments |-> res.assignments[i].missing_minutes])>>

C23_ModelFeasible ==
    LET M == Prepared
    IN  \E x \in [M.allowed -> {0, 1}] : Feasible(M, x)

\* C24: coverage dominates the objective: a solution that minimizes
\* 1000*sum(under) + 10*sum(over) + sum(under_hours) also minimizes the total
\* under-coverage sum(under) among the feasible solutions, so no feasible
\* assignment has less uncovered demand than the optimum returned.
C24_CoverageDominates ==
    LET M == Prepared
        TotalUnder(x) == SumSeq([k \in DOMAIN M.slices |-> UnderOf(M, x, M.slices[k].id)])
    IN  status = "OPTIMAL" =>
            \A x \in FeasibleSet(M) : TotalUnder(xval) <= TotalUnder(x)

-----------------------------------------------------------------------------
(* Properties of the stored demand *)

\* C25: every item of the raw_payload of every Demand row is a valid interval,
\* 0 <= start < end <= 1440 in minutes of the day.
C25_StoredIntervalsValid ==
    \A j \in DOMAIN demands :
        \A n \in DOMAIN demands[j].raw_payload :
            LET it == demands[j].raw_payload[n]
            IN  /\ 0 <= to_minutes(it.start)
                /\ to_minutes(it.start) < to_minutes(it.end)
                /\ to_minutes(it.end) <= 1440

-----------------------------------------------------------------------------
(* Properties of the notifications *)

\* C26: a message is handed to send_mail only by a call whose transaction
\* commits, so whenever the last call has sent a notification it has answered
\* 200 and its change is in the database.
C26_NotifiedOnlyWhenCommitted == mail # NoMail => last.code = 200

-----------------------------------------------------------------------------
(* Properties of the persisted shifts *)

\* C27: of two forced regenerations of one Demand that overlap, the one that
\* finishes second fails (a uniqueness conflict) and leaves the rows of the
\* first: one row per shift_uid, all written by the call that succeeded.
C27_SecondForcedCallConflicts ==
    [][\A w \in Workers :
            (calls[w].req = 1 /\ FinishEnsure(w))
            => /\ last'.code # 200
               /\ shifts' = shifts
               /\ \A u \in DOMAIN shifts' : shifts'[u].shift_uid = u]_vars

\* C28: the shift_uid of every ScheduleShift row is the one _shift_uid gives
\* for the row's demand id and its current date, location, start and end; the
\* rows are kept by shift_uid, so no two of them share one.
C28_ShiftUidOfCurrentFields ==
    \A u \in DOMAIN shifts :
        /\ shifts[u].shift_uid = u
        /\ u = shift_uid(u[2], shifts[u])

-----------------------------------------------------------------------------
(* Properties of save_day_demand *)

\* C29: a save_day call for (date, location) that succeeds changes the stored
\* demand of that day only: for every other (date, location) the items that
\* get_day returns and the persisted ScheduleShift rows are the same before
\* and after the call.
C29_SaveDayChangesOneDay ==
    [][\A i \in SaveDayInputs :
        (last' = Outcome("save_day", 200) /\ SaveDayDemand(i[1], i[2], i[3]))
        => \A n \in DOMAIN Days, location \in {"A", "B"} :
            (Days[n] # i[1] \/ location # i[2])
            => /\ DayDemandOut(get_or_build_day_index(day_index', demands', Days[n], location),
                               demands', defaults', Days[n], location).items
                  = DayDemandOut(get_or_build_day_index(day_index, demands, Days[n], location),
                                 demands, defaults, Days[n], location).items
               /\ \A u \in DOMAIN shifts :
                    (shifts[u].date = Days[n] /\ shifts[u].location = location)
                    => u \in DOMAIN shifts' /\ shifts'[u] = shifts[u]]_vars

\* C30: a save_day call for a date with a non-empty list of valid items
\* (start < end) answers 200, whatever save_day and generate_day calls came
\* before, and leaves no two Demand rows with one content_hash.
C30_SaveDayNeverConflicts ==
    [][\A i \in SaveDayInputs :
        (/\ i[1] \in Range(Days)
         /\ i[3] # <<>>
         /\ \A n \in DOMAIN i[3] :
                /\ i[3][n].start # <<>>
                /\ i[3][n].end # <<>>
                /\ to_minutes(i[3][n].start) < to_minutes(i[3][n].end)
         /\ SaveDayDemand(i[1], i[2], i[3]))
        => /\ last'.code = 200
           /\ \A j, k \in DOMAIN demands' :
                demands'[j].content_hash = demands'[k].content_hash => j = k]_vars

====
